---- MODULE Spec2Model ----
\* Model of the HTTP/2 connection engine of server.go: the serve loop of one
\* serverConn, its frame-write scheduler, the stream state machine, the
\* writeFrameAsync tasks and the handler tasks that submit frame writes.
EXTENDS Integers, Sequences, FiniteSets, TLC

\* ---------------------------------------------------------------- bounds
\* Largest stream id the modelled peer uses (ids 1..MaxStreamID).
MaxStreamID == 3
\* Number of events (frames, or the final read error) the frame reader hands
\* to the serve loop.
MaxFrames == 3
\* Number of events the reader hands over in the one-request scenario.
MaxFramesDeep == 4
\* Number of events the reader hands over in the flow-control scenario.
MaxFramesFlow == 4
\* Number of frame writes one handler submits.
MaxHandlerWrites == 2
\* Server.MaxConcurrentStreams of the modelled configuration.
SrvMaxConcurrentStreams == 1

\* ------------------------------------------------------ program constants
defaultMaxStreams == 250
initialWindowSizeDefault == 65535
wantWriteFrameChCap == 8
wroteFrameChCap == 1
frameWriteChCap == 1
MaxWindow == 2147483647

IDs == 1 .. MaxStreamID

\* Server.maxConcurrentStreams
maxConcurrentStreams(v) == IF v > 0 THEN v ELSE defaultMaxStreams

advMaxStreams == maxConcurrentStreams(SrvMaxConcurrentStreams)

\* streamState
stateIdle == "idle"
stateOpen == "open"
stateHalfClosedLocal == "halfClosedLocal"
stateHalfClosedRemote == "halfClosedRemote"
stateClosed == "closed"

\* ErrCode values used by the serve loop
ErrCodeNo == "NO_ERROR"
ErrCodeProtocol == "PROTOCOL_ERROR"
ErrCodeFlowControl == "FLOW_CONTROL_ERROR"
ErrCodeStreamClosed == "STREAM_CLOSED"
ErrCodeFrameSize == "FRAME_SIZE_ERROR"
ErrCodeInadequateSecurity == "INADEQUATE_SECURITY"

\* error values returned by processFrame / delivered on readFrameErrCh
NoErr == [t |-> "nil", id |-> 0, code |-> ErrCodeNo]
ConnectionError(code) == [t |-> "conn", id |-> 0, code |-> code]
StreamError(id, code) == [t |-> "stream", id |-> id, code |-> code]
goAwayFlowError == [t |-> "goAwayFlow", id |-> 0, code |-> ErrCodeFlowControl]
OtherError(what) == [t |-> "other", id |-> 0, code |-> what]

\* frameWriteMsg: kind of the frame producer, owning stream (0 = nil),
\* whether the write carries END_STREAM, whether it has a done channel
\* (the frameWriteCh of the handler of the owning stream), and what the
\* producer holds: a stream id, an error code, the settings it carries,
\* the opaque data of a PING.
WM(kind, stream, endStream, done, id, code, settings, data) ==
    [kind |-> kind, stream |-> stream, endStream |-> endStream, done |-> done,
     id |-> id, code |-> code, settings |-> settings, data |-> data]

NoWM == WM("none", 0, FALSE, FALSE, 0, "", {}, 0)

\* an initial SETTINGS write that carries no settings
writeSettingsEmpty == WM("SETTINGS", 0, FALSE, FALSE, 0, "", {}, 0)

writeSettingsInitial ==
    WM("SETTINGS", 0, FALSE, FALSE, 0, "", {"MAX_FRAME_SIZE", "MAX_CONCURRENT_STREAMS"}, 0)
writeSettingsAck == WM("SETTINGS_ACK", 0, FALSE, FALSE, 0, "", {}, 0)
flushFrameWriter == WM("FLUSH", 0, FALSE, FALSE, 0, "", {}, 0)
\* writePingAck{f}: the PING frame it holds, by its opaque data
writePingAck(data) == WM("PING_ACK", 0, FALSE, FALSE, 0, "", {}, data)
writeGoAway(maxID, code) == WM("GOAWAY", 0, FALSE, FALSE, maxID, code, {}, 0)
writeStreamError(id, code) == WM("RST_STREAM", 0, FALSE, FALSE, id, code, {}, 0)
writeResHeaders(id, end, done) == WM("HEADERS", id, end, done, id, "", {}, 0)
writeData(id, end) == WM("DATA", id, end, TRUE, id, "", {}, 0)
writeWindowUpdate(id) == WM("WINDOW_UPDATE", id, FALSE, FALSE, id, "", {}, 0)

\* endsStream: the write carries END_STREAM (a final DATA or HEADERS)
endsStream(wm) == wm.kind \in {"DATA", "HEADERS"} /\ wm.endStream

\* a stream object as allocated by processHeaders (zero value otherwise)
NewStream == [state |-> stateIdle, flow |-> 0, body |-> "nil", cw |-> FALSE,
              bodyBytes |-> 0, declBodyBytes |-> 0,
              sentReset |-> FALSE, gotReset |-> FALSE]


\* uint32 counter arithmetic of curOpenStreams; the value 2^32-1 that a
\* decrement of 0 wraps to is written -1.
uint32Dec(x) == IF x = 0 THEN -1 ELSE x - 1
uint32Inc(x) == IF x = -1 THEN 0 ELSE x + 1
uint32Gt(a, b) == IF a = -1 THEN b # -1 ELSE (b # -1 /\ a > b)

\* flow.add: add n to the window unless the sum would exceed 2^31-1
flowFits(size, n) == IF size <= 0 \/ n <= 0 THEN TRUE ELSE n <= MaxWindow - size
flowAdd(size, n) == IF flowFits(size, n) THEN size + n ELSE size

\* writeScheduler: a FIFO of frameWriteMsg
schedEmpty(q) == q = <<>>
schedAdd(q, wm) == Append(q, wm)
schedHead(q) == Head(q)
schedRest(q) == Tail(q)

\* ---------------------------------------------------------------- state
VARIABLES
    pc,                    \* serve goroutine: "start", "preface", "loop", "done", "panic", "blocked"
    streams,               \* keys of sc.streams
    st,                    \* the stream objects, by id
    curOpenStreams,
    maxStreamID,
    req,                   \* sc.req: the requestParam of the header block being read
    sawFirstSettings,
    needToSendSettingsAck,
    writingFrame,
    needsFrameFlush,
    inGoAway,
    needToSendGoAway,
    goAwayCode,
    shutdownTimer,         \* "nil", or the duration the timer was armed with
    writeSched,            \* sc.writeSched queue
    peer,                  \* settings recorded from the peer
    initialWindowSize,
    flow,                  \* sc.flow
    wroteFrameCh,          \* number of buffered completions
    writers,               \* running writeFrameAsync goroutines
    hpc,                   \* handler goroutine of each stream
    firstWrite,            \* first frame write started on the connection
    nAckStarted,           \* SETTINGS-ACK writes started
    nGoAwayStarted,        \* GOAWAY writes started
    wantWriteFrameCh,      \* buffered channel handlers -> serve
    hdone,                 \* frameWriteCh of each handler: buffered errors
    hwrites,               \* frame writes submitted by each handler
    hread,                 \* body bytes each handler has read from its pipe
    settingsTimer,         \* "armed", "stopped"
    readFrameCh,           \* "off" (reader not started), "open", "nil"
    nFrames,               \* events received from the reader
    fg,                    \* serve: header of the frame received in the iteration last run
    nSettings,             \* non-ACK SETTINGS frames processSettings accepted
    exitCause,             \* why serve returned ("none" while it runs)
    tlsOld,                \* negotiated TLS version is below 1.2
    framer,                \* a Framer of frame.go, the bytes of its reader and writer, the frames it returned
    frameReader            \* the readFrames goroutine: its position, the frame it holds, its gate

scVars == <<pc, streams, st, curOpenStreams, maxStreamID, req, sawFirstSettings,
            needToSendSettingsAck, writingFrame, needsFrameFlush, inGoAway,
            needToSendGoAway, goAwayCode, shutdownTimer, writeSched, peer,
            initialWindowSize, flow, wroteFrameCh, writers, hpc, firstWrite,
            nAckStarted, nGoAwayStarted>>

vars == <<pc, streams, st, curOpenStreams, maxStreamID, req, sawFirstSettings,
          needToSendSettingsAck, writingFrame, needsFrameFlush, inGoAway,
          needToSendGoAway, goAwayCode, shutdownTimer, writeSched, peer,
          initialWindowSize, flow, wroteFrameCh, writers, hpc, firstWrite,
          nAckStarted, nGoAwayStarted, wantWriteFrameCh, hdone, hwrites,
          hread, settingsTimer, readFrameCh, nFrames, fg, nSettings, exitCause, tlsOld, framer, frameReader>>

\* the state owned or written by the serve goroutine, as one value
SC == [pc |-> pc, streams |-> streams, st |-> st, curOpenStreams |-> curOpenStreams,
       maxStreamID |-> maxStreamID, req |-> req, sawFirstSettings |-> sawFirstSettings,
       needToSendSettingsAck |-> needToSendSettingsAck, writingFrame |-> writingFrame,
       needsFrameFlush |-> needsFrameFlush, inGoAway |-> inGoAway,
       needToSendGoAway |-> needToSendGoAway, goAwayCode |-> goAwayCode,
       shutdownTimer |-> shutdownTimer, writeSched |-> writeSched, peer |-> peer,
       initialWindowSize |-> initialWindowSize, flow |-> flow,
       wroteFrameCh |-> wroteFrameCh, writers |-> writers, hpc |-> hpc,
       firstWrite |-> firstWrite, nAckStarted |-> nAckStarted,
       nGoAwayStarted |-> nGoAwayStarted]

Commit(s) ==
    /\ pc' = s.pc
    /\ streams' = s.streams
    /\ st' = s.st
    /\ curOpenStreams' = s.curOpenStreams
    /\ maxStreamID' = s.maxStreamID
    /\ req' = s.req
    /\ sawFirstSettings' = s.sawFirstSettings
    /\ needToSendSettingsAck' = s.needToSendSettingsAck
    /\ writingFrame' = s.writingFrame
    /\ needsFrameFlush' = s.needsFrameFlush
    /\ inGoAway' = s.inGoAway
    /\ needToSendGoAway' = s.needToSendGoAway
    /\ goAwayCode' = s.goAwayCode
    /\ shutdownTimer' = s.shutdownTimer
    /\ writeSched' = s.writeSched
    /\ peer' = s.peer
    /\ initialWindowSize' = s.initialWindowSize
    /\ flow' = s.flow
    /\ wroteFrameCh' = s.wroteFrameCh
    /\ writers' = s.writers
    /\ hpc' = s.hpc
    /\ firstWrite' = s.firstWrite
    /\ nAckStarted' = s.nAckStarted
    /\ nGoAwayStarted' = s.nGoAwayStarted

\* the serve goroutine aborted (panic) or is stuck in a channel send
Halted(s) == s.pc \in {"panic", "blocked"}
Panic(s) == [s EXCEPT !.pc = "panic"]

\* requestParam{}: no request is being read
NoReq ==
    [stream |-> 0, method |-> "", path |-> "", scheme |-> "", authority |-> "",
     sawRegularHeader |-> FALSE, invalidHeader |-> FALSE, contentLength |-> -1]

\* hpack.HeaderField
HF(name, value) == [name |-> name, value |-> value]

\* header names validHeader refuses
ForbiddenNames == {"", "a b"}

\* validHeader
validHeader(v) == v \notin ForbiddenNames

\* names of the modelled requests that begin with ':'
ColonNames == {":method", ":path", ":scheme", ":authority", ":status"}

\* strings.HasPrefix(v, ":")
hasColonPrefix(v) == v \in ColonNames

\* serverConn.onNewHeaderField on the pending request rp (the header map
\* is left out)
onNewHeaderField(rp, f) ==
    IF ~validHeader(f.name) THEN [rp EXCEPT !.invalidHeader = TRUE]
    ELSE IF hasColonPrefix(f.name)
    THEN IF rp.sawRegularHeader THEN [rp EXCEPT !.invalidHeader = TRUE]
         ELSE IF f.name = ":method"
              THEN IF rp.method # "" THEN [rp EXCEPT !.invalidHeader = TRUE]
                   ELSE [rp EXCEPT !.method = f.value]
         ELSE IF f.name = ":path"
              THEN IF rp.path # "" THEN [rp EXCEPT !.invalidHeader = TRUE]
                   ELSE [rp EXCEPT !.path = f.value]
         ELSE IF f.name = ":scheme"
              THEN IF rp.scheme # "" THEN [rp EXCEPT !.invalidHeader = TRUE]
                   ELSE [rp EXCEPT !.scheme = f.value]
         ELSE IF f.name = ":authority"
              THEN IF rp.authority # "" THEN [rp EXCEPT !.invalidHeader = TRUE]
                   ELSE [rp EXCEPT !.authority = f.value]
         ELSE [rp EXCEPT !.invalidHeader = TRUE]
    ELSE [rp EXCEPT !.sawRegularHeader = TRUE]

\* sc.hpackDecoder.Write: onNewHeaderField is called for each field of
\* the fragment, in order
RECURSIVE hpackWrite(_, _)
hpackWrite(rp, fields) ==
    IF fields = <<>> THEN rp
    ELSE hpackWrite(onNewHeaderField(rp, Head(fields)), Tail(fields))

\* url.ParseRequestURI accepts the path
parseRequestURI(path) == path \in {"/", "*"}

\* serverConn.state
state(s, streamID) ==
    IF streamID \in s.streams THEN s.st[streamID].state
    ELSE IF streamID <= s.maxStreamID THEN stateClosed
    ELSE stateIdle

\* serverConn.curHeaderStreamID
curHeaderStreamID(s) == s.req.stream

\* closeStream without the decrement of curOpenStreams
closeStreamNoDecrement(s, id, err) ==
    IF Halted(s) THEN s
    ELSE IF s.st[id].state \in {stateIdle, stateClosed} THEN Panic(s)
    ELSE [s EXCEPT !.st[id].state = stateClosed,
                   !.streams = @ \ {id},
                   !.st[id].body = IF @ = "nil" THEN "nil" ELSE err,
                   !.st[id].cw = TRUE]

\* serverConn.closeStream
closeStream(s, id, err) ==
    IF Halted(s) THEN s
    ELSE IF s.st[id].state \in {stateIdle, stateClosed} THEN Panic(s)
    ELSE [s EXCEPT !.st[id].state = stateClosed,
                   !.curOpenStreams = uint32Dec(@),
                   !.streams = @ \ {id},
                   !.st[id].body = IF @ = "nil" THEN "nil" ELSE err,
                   !.st[id].cw = TRUE]

\* go sc.writeFrameAsync(wm), with the record of what was started
spawnWriter(s, wm) ==
    [s EXCEPT !.writers = Append(@, [wm |-> wm, stage |-> "write"]),
              !.firstWrite = IF @ = NoWM THEN wm ELSE @,
              !.nAckStarted = IF wm.kind = "SETTINGS_ACK" THEN @ + 1 ELSE @,
              !.nGoAwayStarted = IF wm.kind = "GOAWAY" THEN @ + 1 ELSE @]

\* the send of a fake completion on wroteFrameCh by the serve goroutine
fakeWrote(s) ==
    IF s.wroteFrameCh >= wroteFrameChCap THEN [s EXCEPT !.pc = "blocked"]
    ELSE [s EXCEPT !.wroteFrameCh = @ + 1]

\* the END_STREAM part of startFrameWrite, with a half-closed-remote stream
\* marked half-closed-local instead of being closed
startEndStreamNoClose(s, wm) ==
    IF ~endsStream(wm) THEN s
    ELSE IF wm.stream = 0 THEN Panic(s)
    ELSE IF s.st[wm.stream].state \in {stateOpen, stateHalfClosedRemote}
         THEN [s EXCEPT !.st[wm.stream].state = stateHalfClosedLocal]
    ELSE s

\* the END_STREAM part of startFrameWrite
startEndStream(s, wm) ==
    IF ~endsStream(wm) THEN s
    ELSE IF wm.stream = 0 THEN Panic(s)
    ELSE IF s.st[wm.stream].state = stateOpen
         THEN [s EXCEPT !.st[wm.stream].state = stateHalfClosedLocal]
    ELSE IF s.st[wm.stream].state = stateHalfClosedRemote
         THEN closeStream(s, wm.stream, "nil")
    ELSE s

\* startFrameWrite without the skip of requests of reset streams
startFrameWriteNoSkip(s, wm) ==
    IF Halted(s) THEN s
    ELSE IF s.writingFrame THEN Panic(s)
    ELSE IF wm.stream # 0 /\ s.st[wm.stream].state = stateHalfClosedLocal THEN Panic(s)
    ELSE IF wm.stream # 0 /\ s.st[wm.stream].state = stateClosed THEN Panic(s)
    ELSE LET s1 == [s EXCEPT !.writingFrame = TRUE, !.needsFrameFlush = TRUE]
             s2 == startEndStream(s1, wm)
         IN IF Halted(s2) THEN s2 ELSE spawnWriter(s2, wm)

\* serverConn.startFrameWrite
startFrameWrite(s, wm) ==
    IF Halted(s) THEN s
    ELSE IF s.writingFrame THEN Panic(s)
    ELSE IF wm.stream # 0 /\ s.st[wm.stream].state = stateHalfClosedLocal THEN Panic(s)
    ELSE IF wm.stream # 0 /\ s.st[wm.stream].state = stateClosed
         THEN IF s.st[wm.stream].sentReset \/ s.st[wm.stream].gotReset
              THEN fakeWrote(s)
              ELSE Panic(s)
    ELSE LET s1 == [s EXCEPT !.writingFrame = TRUE, !.needsFrameFlush = TRUE]
             s2 == startEndStream(s1, wm)
         IN IF Halted(s2) THEN s2 ELSE spawnWriter(s2, wm)

\* writeFrame whose fast path does not look at the queue
writeFrameFast(s, wm) ==
    IF Halted(s) THEN s
    ELSE IF ~s.writingFrame THEN startFrameWrite(s, wm)
    ELSE [s EXCEPT !.writeSched = schedAdd(@, wm)]

\* serverConn.writeFrame
writeFrame(s, wm) ==
    IF Halted(s) THEN s
    ELSE IF ~s.writingFrame /\ schedEmpty(s.writeSched) THEN startFrameWrite(s, wm)
    ELSE [s EXCEPT !.writeSched = schedAdd(@, wm)]

\* scheduleFrameWrite with the SETTINGS-ACK tried before the GOAWAY
scheduleFrameWriteAckFirst(s) ==
    IF Halted(s) THEN s
    ELSE IF s.writingFrame THEN s
    ELSE IF s.needToSendSettingsAck
         THEN startFrameWrite([s EXCEPT !.needToSendSettingsAck = FALSE], writeSettingsAck)
    ELSE IF s.needToSendGoAway
         THEN startFrameWrite([s EXCEPT !.needToSendGoAway = FALSE],
                              writeGoAway(s.maxStreamID, s.goAwayCode))
    ELSE IF ~s.inGoAway /\ ~schedEmpty(s.writeSched)
         THEN startFrameWrite([s EXCEPT !.writeSched = schedRest(@)], schedHead(s.writeSched))
    ELSE IF s.needsFrameFlush
         THEN LET s1 == startFrameWrite(s, flushFrameWriter)
              IN IF Halted(s1) THEN s1 ELSE [s1 EXCEPT !.needsFrameFlush = FALSE]
    ELSE s

\* serverConn.scheduleFrameWrite
scheduleFrameWrite(s) ==
    IF Halted(s) THEN s
    ELSE IF s.writingFrame THEN s
    ELSE IF s.needToSendGoAway
         THEN startFrameWrite([s EXCEPT !.needToSendGoAway = FALSE],
                              writeGoAway(s.maxStreamID, s.goAwayCode))
    ELSE IF s.needToSendSettingsAck
         THEN startFrameWrite([s EXCEPT !.needToSendSettingsAck = FALSE], writeSettingsAck)
    ELSE IF ~s.inGoAway /\ ~schedEmpty(s.writeSched)
         THEN startFrameWrite([s EXCEPT !.writeSched = schedRest(@)], schedHead(s.writeSched))
    ELSE IF s.needsFrameFlush
         THEN LET s1 == startFrameWrite(s, flushFrameWriter)
              IN IF Halted(s1) THEN s1 ELSE [s1 EXCEPT !.needsFrameFlush = FALSE]
    ELSE s

\* serverConn.shutDownIn
shutDownIn(s, d) == [s EXCEPT !.shutdownTimer = d]

\* goAway without the test of inGoAway
goAwayAgain(s, code) ==
    IF Halted(s) THEN s
    ELSE LET s1 == shutDownIn(s, IF code # ErrCodeNo THEN "250ms" ELSE "1s")
         IN scheduleFrameWrite([s1 EXCEPT !.inGoAway = TRUE,
                                          !.needToSendGoAway = TRUE,
                                          !.goAwayCode = code])

\* serverConn.goAway
goAway(s, code) ==
    IF Halted(s) THEN s
    ELSE IF s.inGoAway THEN s
    ELSE LET s1 == shutDownIn(s, IF code # ErrCodeNo THEN "250ms" ELSE "1s")
         IN scheduleFrameWrite([s1 EXCEPT !.inGoAway = TRUE,
                                          !.needToSendGoAway = TRUE,
                                          !.goAwayCode = code])

\* serverConn.resetStream
resetStream(s, se) ==
    IF Halted(s) THEN s
    ELSE IF se.id \notin s.streams THEN Panic(s)
    ELSE LET s1 == writeFrame(s, writeStreamError(se.id, se.code))
         IN IF Halted(s1) THEN s1
            ELSE closeStream([s1 EXCEPT !.st[se.id].sentReset = TRUE], se.id, "streamError")


\* ------------------------------------------------------- frame processing
\* the result of a processing step: the state and the error returned
Res(s, err) == [s |-> s, err |-> err]

minMaxFrameSize == 16384
maxFrameSize == 16777215

\* Setting.Valid
settingValid(set) ==
    IF set.id = "INITIAL_WINDOW_SIZE" /\ set.val > MaxWindow
        THEN ConnectionError(ErrCodeFlowControl)
    ELSE IF set.id = "MAX_FRAME_SIZE" /\ (set.val < minMaxFrameSize \/ set.val > maxFrameSize)
        THEN ConnectionError(ErrCodeProtocol)
    ELSE NoErr

\* the loop of processSettingInitialWindowSize over sc.streams, visited in
\* the order ord; it stops at the first window that does not fit
RECURSIVE addGrowth(_, _, _)
addGrowth(s, growth, ord) ==
    IF ord = <<>> THEN Res(s, NoErr)
    ELSE IF Head(ord) \notin s.streams THEN addGrowth(s, growth, Tail(ord))
    ELSE IF ~flowFits(s.st[Head(ord)].flow, growth)
         THEN Res(s, ConnectionError(ErrCodeFlowControl))
    ELSE addGrowth([s EXCEPT !.st[Head(ord)].flow = flowAdd(@, growth)], growth, Tail(ord))

\* processSettingInitialWindowSize without the loop over sc.streams
processSettingInitialWindowSizeNoGrowth(s, val, ord) ==
    Res([s EXCEPT !.initialWindowSize = val], NoErr)

\* serverConn.processSettingInitialWindowSize
processSettingInitialWindowSize(s, val, ord) ==
    addGrowth([s EXCEPT !.initialWindowSize = val], val - s.initialWindowSize, ord)

\* serverConn.processSetting
processSetting(s, set, ord) ==
    IF settingValid(set) # NoErr THEN Res(s, settingValid(set))
    ELSE IF set.id = "INITIAL_WINDOW_SIZE" THEN processSettingInitialWindowSize(s, set.val, ord)
    ELSE IF set.id = "UNKNOWN" THEN Res(s, NoErr)
    ELSE Res([s EXCEPT !.peer[set.id] = set.val], NoErr)

\* SettingsFrame.ForeachSetting(sc.processSetting)
RECURSIVE foreachSetting(_, _, _)
foreachSetting(s, sets, ord) ==
    IF sets = <<>> THEN Res(s, NoErr)
    ELSE LET r == processSetting(s, Head(sets), ord)
         IN IF r.err # NoErr THEN r ELSE foreachSetting(r.s, Tail(sets), ord)

\* serverConn.processSettings
processSettings(s, f, ord) ==
    IF f.ack THEN Res(s, NoErr)
    ELSE LET r == foreachSetting(s, f.settings, ord)
         IN IF r.err # NoErr THEN r
            ELSE Res(scheduleFrameWrite([r.s EXCEPT !.needToSendSettingsAck = TRUE]), NoErr)

\* serverConn.newWriterAndRequest: the error it returns
newWriterAndRequest(s) ==
    IF \/ s.req.invalidHeader \/ s.req.method = "" \/ s.req.path = ""
       \/ s.req.scheme \notin {"https", "http"}
        THEN StreamError(s.req.stream, ErrCodeProtocol)
    ELSE IF s.req.scheme = "https" /\ tlsOld
        THEN ConnectionError(ErrCodeInadequateSecurity)
    ELSE IF ~parseRequestURI(s.req.path) THEN StreamError(s.req.stream, ErrCodeProtocol)
    ELSE NoErr

\* processHeaderBlockFragment without the comparison of curOpenStreams
\* with advMaxStreams
processHeaderBlockFragmentNoLimit(s, id, f) ==
    IF ~f.frag.ok THEN Res(s, OtherError("hpack"))
    ELSE LET s1 == [s EXCEPT !.req = [hpackWrite(@, f.frag.fields) EXCEPT
                                        !.contentLength =
                                            IF f.clen # -1 THEN f.clen ELSE @]]
             done == [s1 EXCEPT !.req = NoReq]
             bodyOpen == s1.st[id].state = stateOpen
         IN IF ~f.endHeaders THEN Res(s1, NoErr)
            ELSE IF newWriterAndRequest(s1) # NoErr THEN Res(done, newWriterAndRequest(s1))
            ELSE Res([done EXCEPT !.st[id].body = IF bodyOpen THEN "open" ELSE "nil",
                                  !.st[id].declBodyBytes =
                                      IF bodyOpen THEN s1.req.contentLength ELSE 0,
                                  !.hpc[id] = "run"], NoErr)

\* serverConn.processHeaderBlockFragment (a Content-Length the fragment
\* declares is given by f.clen)
processHeaderBlockFragment(s, id, f) ==
    IF ~f.frag.ok THEN Res(s, OtherError("hpack"))
    ELSE LET s1 == [s EXCEPT !.req = [hpackWrite(@, f.frag.fields) EXCEPT
                                        !.contentLength =
                                            IF f.clen # -1 THEN f.clen ELSE @]]
             done == [s1 EXCEPT !.req = NoReq]
             bodyOpen == s1.st[id].state = stateOpen
         IN IF ~f.endHeaders THEN Res(s1, NoErr)
            ELSE IF uint32Gt(s1.curOpenStreams, advMaxStreams)
                 THEN Res(done, StreamError(id, ErrCodeProtocol))
            ELSE IF newWriterAndRequest(s1) # NoErr THEN Res(done, newWriterAndRequest(s1))
            ELSE Res([done EXCEPT !.st[id].body = IF bodyOpen THEN "open" ELSE "nil",
                                  !.st[id].declBodyBytes =
                                      IF bodyOpen THEN s1.req.contentLength ELSE 0,
                                  !.hpc[id] = "run"], NoErr)

\* processHeaders without the comparison of the id with maxStreamID
processHeadersAnyOddID(s, f) ==
    IF s.inGoAway THEN Res(s, NoErr)
    ELSE IF f.id % 2 # 1 \/ s.req.stream # 0
         THEN Res(s, ConnectionError(ErrCodeProtocol))
    ELSE LET s1 == [s EXCEPT
                     !.maxStreamID = IF f.id > @ THEN f.id ELSE @,
                     !.st[f.id] = [NewStream EXCEPT
                                     !.state = IF f.endStream THEN stateHalfClosedRemote
                                                              ELSE stateOpen,
                                     !.flow = flowAdd(0, s.initialWindowSize)],
                     !.streams = @ \cup {f.id},
                     !.curOpenStreams = uint32Inc(@),
                     !.req = [NoReq EXCEPT !.stream = f.id]]
         IN processHeaderBlockFragment(s1, f.id, f)

\* processHeaders without the test of inGoAway
processHeadersInGoAway(s, f) ==
    IF f.id % 2 # 1 \/ f.id <= s.maxStreamID \/ s.req.stream # 0
         THEN Res(s, ConnectionError(ErrCodeProtocol))
    ELSE LET s1 == [s EXCEPT
                     !.maxStreamID = IF f.id > @ THEN f.id ELSE @,
                     !.st[f.id] = [NewStream EXCEPT
                                     !.state = IF f.endStream THEN stateHalfClosedRemote
                                                              ELSE stateOpen,
                                     !.flow = flowAdd(0, s.initialWindowSize)],
                     !.streams = @ \cup {f.id},
                     !.curOpenStreams = uint32Inc(@),
                     !.req = [NoReq EXCEPT !.stream = f.id]]
         IN processHeaderBlockFragment(s1, f.id, f)

\* serverConn.processHeaders
processHeaders(s, f) ==
    IF s.inGoAway THEN Res(s, NoErr)
    ELSE IF f.id % 2 # 1 \/ f.id <= s.maxStreamID \/ s.req.stream # 0
         THEN Res(s, ConnectionError(ErrCodeProtocol))
    ELSE LET s1 == [s EXCEPT
                     !.maxStreamID = IF f.id > @ THEN f.id ELSE @,
                     !.st[f.id] = [NewStream EXCEPT
                                     !.state = IF f.endStream THEN stateHalfClosedRemote
                                                              ELSE stateOpen,
                                     !.flow = flowAdd(0, s.initialWindowSize)],
                     !.streams = @ \cup {f.id},
                     !.curOpenStreams = uint32Inc(@),
                     !.req = [NoReq EXCEPT !.stream = f.id]]
         IN processHeaderBlockFragment(s1, f.id, f)

\* serverConn.processContinuation
processContinuation(s, f) ==
    IF f.id \notin s.streams \/ curHeaderStreamID(s) # f.id
        THEN Res(s, ConnectionError(ErrCodeProtocol))
    ELSE processHeaderBlockFragment(s, f.id, f)

\* processWindowUpdate that treats a stream that is not in the map as a
\* connection error
processWindowUpdateStrict(s, f) ==
    IF f.id # 0
    THEN IF f.id \notin s.streams THEN Res(s, ConnectionError(ErrCodeProtocol))
         ELSE IF ~flowFits(s.st[f.id].flow, f.incr)
              THEN Res(s, StreamError(f.id, ErrCodeFlowControl))
         ELSE Res(scheduleFrameWrite([s EXCEPT !.st[f.id].flow = flowAdd(@, f.incr)]), NoErr)
    ELSE IF ~flowFits(s.flow, f.incr) THEN Res(s, goAwayFlowError)
         ELSE Res(scheduleFrameWrite([s EXCEPT !.flow = flowAdd(@, f.incr)]), NoErr)

\* serverConn.processWindowUpdate
processWindowUpdate(s, f) ==
    IF f.id # 0
    THEN IF f.id \notin s.streams THEN Res(s, NoErr)
         ELSE IF ~flowFits(s.st[f.id].flow, f.incr)
              THEN Res(s, StreamError(f.id, ErrCodeFlowControl))
         ELSE Res(scheduleFrameWrite([s EXCEPT !.st[f.id].flow = flowAdd(@, f.incr)]), NoErr)
    ELSE IF ~flowFits(s.flow, f.incr) THEN Res(s, goAwayFlowError)
         ELSE Res(scheduleFrameWrite([s EXCEPT !.flow = flowAdd(@, f.incr)]), NoErr)

\* processPing answering with a PING ACK that does not carry the data of f
processPingNoData(s, f) ==
    IF f.ack THEN Res(s, NoErr)
    ELSE IF f.id # 0 THEN Res(s, ConnectionError(ErrCodeProtocol))
    ELSE Res(writeFrame(s, writePingAck(0)), NoErr)

\* serverConn.processPing
processPing(s, f) ==
    IF f.ack THEN Res(s, NoErr)
    ELSE IF f.id # 0 THEN Res(s, ConnectionError(ErrCodeProtocol))
    ELSE Res(writeFrame(s, writePingAck(f.data)), NoErr)

\* serverConn.processResetStream
processResetStream(s, f) ==
    IF state(s, f.id) = stateIdle THEN Res(s, ConnectionError(ErrCodeProtocol))
    ELSE IF f.id \in s.streams
         THEN Res(closeStream([s EXCEPT !.st[f.id].gotReset = TRUE], f.id, "streamError"), NoErr)
    ELSE Res(s, NoErr)

\* the END_STREAM part of processData
dataStreamEnded(s, id) ==
    LET x == s.st[id]
        s1 == [s EXCEPT !.st[id].body =
                   IF x.declBodyBytes # -1 /\ x.declBodyBytes # x.bodyBytes
                   THEN "lengthMismatch" ELSE "EOF"]
    IN IF x.state = stateOpen THEN [s1 EXCEPT !.st[id].state = stateHalfClosedRemote]
       ELSE IF x.state = stateHalfClosedLocal THEN [s1 EXCEPT !.st[id].state = stateClosed]
       ELSE s1

\* processData without the comparison with the declared Content-Length
processDataNoLengthCheck(s, f) ==
    IF f.id \notin s.streams
       \/ s.st[f.id].state \notin {stateOpen, stateHalfClosedLocal}
        THEN Res(s, StreamError(f.id, ErrCodeStreamClosed))
    ELSE IF s.st[f.id].body = "nil" THEN Res(Panic(s), NoErr)
    ELSE IF f.len > 0 /\ s.st[f.id].body # "open"
        THEN Res(s, StreamError(f.id, ErrCodeStreamClosed))
    ELSE LET s1 == [s EXCEPT !.st[f.id].bodyBytes = @ + f.len]
         IN Res(IF f.endStream THEN dataStreamEnded(s1, f.id) ELSE s1, NoErr)

\* serverConn.processData
processData(s, f) ==
    IF f.id \notin s.streams
       \/ s.st[f.id].state \notin {stateOpen, stateHalfClosedLocal}
        THEN Res(s, StreamError(f.id, ErrCodeStreamClosed))
    ELSE IF s.st[f.id].body = "nil" THEN Res(Panic(s), NoErr)
    ELSE IF s.st[f.id].declBodyBytes # -1
            /\ s.st[f.id].bodyBytes + f.len > s.st[f.id].declBodyBytes
        THEN Res([s EXCEPT !.st[f.id].body = "tooLong"], StreamError(f.id, ErrCodeStreamClosed))
    ELSE IF f.len > 0 /\ s.st[f.id].body # "open"
        THEN Res(s, StreamError(f.id, ErrCodeStreamClosed))
    ELSE LET s1 == [s EXCEPT !.st[f.id].bodyBytes = @ + f.len]
         IN Res(IF f.endStream THEN dataStreamEnded(s1, f.id) ELSE s1, NoErr)

\* processFrame without the check of the header block in progress
processFrameNoHeaderBlockCheck(s, f, ord) ==
    IF ~s.sawFirstSettings /\ f.type # "SETTINGS"
        THEN Res(s, ConnectionError(ErrCodeProtocol))
    ELSE LET s1 == [s EXCEPT !.sawFirstSettings = TRUE]
         IN CASE f.type = "SETTINGS" -> processSettings(s1, f, ord)
              [] f.type = "HEADERS" -> processHeaders(s1, f)
              [] f.type = "CONTINUATION" -> processContinuation(s1, f)
              [] f.type = "WINDOW_UPDATE" -> processWindowUpdate(s1, f)
              [] f.type = "PING" -> processPing(s1, f)
              [] f.type = "DATA" -> processData(s1, f)
              [] f.type = "RST_STREAM" -> processResetStream(s1, f)
              [] OTHER -> Res(s1, NoErr)

\* serverConn.processFrame
processFrame(s, f, ord) ==
    IF ~s.sawFirstSettings /\ f.type # "SETTINGS"
        THEN Res(s, ConnectionError(ErrCodeProtocol))
    ELSE LET s1 == [s EXCEPT !.sawFirstSettings = TRUE]
         IN IF curHeaderStreamID(s1) # 0
               /\ (f.type # "CONTINUATION" \/ f.id # curHeaderStreamID(s1))
                THEN Res(s1, ConnectionError(ErrCodeProtocol))
            ELSE CASE f.type = "SETTINGS" -> processSettings(s1, f, ord)
                   [] f.type = "HEADERS" -> processHeaders(s1, f)
                   [] f.type = "CONTINUATION" -> processContinuation(s1, f)
                   [] f.type = "WINDOW_UPDATE" -> processWindowUpdate(s1, f)
                   [] f.type = "PING" -> processPing(s1, f)
                   [] f.type = "DATA" -> processData(s1, f)
                   [] f.type = "RST_STREAM" -> processResetStream(s1, f)
                   [] OTHER -> Res(s1, NoErr)

\* the error switch at the end of processFrameFromReader; keep tells
\* whether the connection is kept open
handleErr(s, err) ==
    CASE err.t = "stream" -> [s |-> resetStream(s, err), keep |-> TRUE]
      [] err.t = "goAwayFlow" -> [s |-> goAway(s, ErrCodeFlowControl), keep |-> TRUE]
      [] err.t = "conn" -> [s |-> goAway(s, err.code), keep |-> TRUE]
      [] OTHER -> [s |-> s, keep |-> FALSE]

\* serverConn.processFrameFromReader for a frame (fgValid)
processFrameFromReader(s, f, ord) ==
    LET r == processFrame(s, f, ord)
    IN IF Halted(r.s) \/ r.err = NoErr THEN [s |-> r.s, keep |-> TRUE, err |-> r.err]
       ELSE [s |-> handleErr(r.s, r.err).s, keep |-> handleErr(r.s, r.err).keep, err |-> r.err]

\* serverConn.processFrameFromReader for a closed readFrameCh (!fgValid):
\* err is what readFrames left on readFrameErrCh
processReadError(s, err) ==
    IF err = OtherError("ErrFrameTooLarge")
        THEN [s |-> goAway(s, ErrCodeFrameSize), keep |-> TRUE, err |-> err]
    ELSE IF err = OtherError("EOF") THEN [s |-> s, keep |-> FALSE, err |-> err]
    ELSE [s |-> handleErr(s, err).s, keep |-> handleErr(s, err).keep, err |-> err]

\* serverConn.closeAllStreamsOnConnClose, visiting sc.streams in the order ord
RECURSIVE closeAllStreamsOnConnClose(_, _)
closeAllStreamsOnConnClose(s, ord) ==
    IF ord = <<>> \/ Halted(s) THEN s
    ELSE IF Head(ord) \notin s.streams THEN closeAllStreamsOnConnClose(s, Tail(ord))
    ELSE closeAllStreamsOnConnClose(closeStream(s, Head(ord), "clientDisconnected"), Tail(ord))

\* the deferred calls of serve, run when serve returns: close(doneServing),
\* stopShutdownTimer, closeAllStreamsOnConnClose, conn.Close
serveReturn(s, ord) ==
    LET s1 == closeAllStreamsOnConnClose(s, ord)
    IN IF Halted(s1) THEN s1 ELSE [s1 EXCEPT !.pc = "done"]


\* ----------------------------------------------------------------- inputs
\* a header block fragment: whether the hpack decoder accepts its bytes,
\* and the header fields it decodes to
Frag(fields) == [ok |-> TRUE, fields |-> fields]
FragUndecodable == [ok |-> FALSE, fields |-> <<>>]
EmptyFrag == Frag(<<>>)

\* the fields of a well-formed request
OkFrag == Frag(<<HF(":method", "GET"), HF(":scheme", "https"), HF(":path", "/")>>)

\* the fields of a request with an undefined pseudo-header
MalformedFrag ==
    Frag(<<HF(":method", "GET"), HF(":scheme", "https"), HF(":path", "/"),
           HF(":status", "200")>>)

FragKinds == {OkFrag, MalformedFrag, FragUndecodable}

Frame(type, id, ack, endStream, endHeaders, incr, len, settings, frag, clen, data) ==
    [type |-> type, id |-> id, ack |-> ack, endStream |-> endStream,
     endHeaders |-> endHeaders, incr |-> incr, len |-> len, settings |-> settings,
     frag |-> frag, clen |-> clen, data |-> data]

NoFrame == Frame("none", 0, FALSE, FALSE, FALSE, 0, 0, <<>>, EmptyFrag, -1, 0)

Setting(id, val) == [id |-> id, val |-> val]

\* payloads of the SETTINGS frames the modelled peer sends
SettingsInputs ==
    { <<>>,
      <<Setting("INITIAL_WINDOW_SIZE", MaxWindow)>>,
      <<Setting("MAX_CONCURRENT_STREAMS", 1), Setting("MAX_FRAME_SIZE", 0)>> }

\* Content-Length a request of the modelled peer declares
DeclaredLen == 2

\* frames the reader can hand over (the parsers of frame.go have accepted
\* them: HEADERS, DATA and RST_STREAM have a stream id, SETTINGS has none,
\* an ACK carries no settings, a WINDOW_UPDATE increment is not 0)
HeadersFrames ==
    { Frame("HEADERS", i, FALSE, es, eh, 0, 0, <<>>, OkFrag, -1, 0) :
        i \in IDs, es \in BOOLEAN, eh \in BOOLEAN }
    \cup { Frame("HEADERS", i, FALSE, FALSE, TRUE, 0, 0, <<>>, fr, -1, 0) :
             i \in IDs, fr \in FragKinds }
    \cup { Frame("HEADERS", i, FALSE, FALSE, TRUE, 0, 0, <<>>, OkFrag, DeclaredLen, 0) : i \in IDs }

Frames ==
    { Frame("SETTINGS", 0, FALSE, FALSE, FALSE, 0, 0, p, EmptyFrag, -1, 0) : p \in SettingsInputs }
    \cup { Frame("SETTINGS", 0, TRUE, FALSE, FALSE, 0, 0, <<>>, EmptyFrag, -1, 0) }
    \cup HeadersFrames
    \cup { Frame("CONTINUATION", i, FALSE, FALSE, eh, 0, 0, <<>>, EmptyFrag, -1, 0) :
             i \in 0 .. MaxStreamID, eh \in BOOLEAN }
    \cup { Frame("WINDOW_UPDATE", i, FALSE, FALSE, FALSE, n, 0, <<>>, EmptyFrag, -1, 0) :
             i \in {0, 1}, n \in {1, MaxWindow} }
    \cup { Frame("PING", 0, a, FALSE, FALSE, 0, 0, <<>>, EmptyFrag, -1, 0) : a \in BOOLEAN }
    \cup { Frame("PING", 1, FALSE, FALSE, FALSE, 0, 0, <<>>, EmptyFrag, -1, 0) }
    \cup { Frame("DATA", i, FALSE, es, FALSE, 0, n, <<>>, EmptyFrag, -1, 0) :
             i \in IDs, es \in BOOLEAN, n \in {1, DeclaredLen} }
    \cup { Frame("RST_STREAM", i, FALSE, FALSE, FALSE, 0, 0, <<>>, EmptyFrag, -1, 0) : i \in IDs }
    \cup { Frame("PRIORITY", 1, FALSE, FALSE, FALSE, 0, 0, <<>>, EmptyFrag, -1, 0) }

\* errors readFrames can leave on readFrameErrCh: those of the reads of
\* Framer.ReadFrame and those of the frame parsers
ReadErrors ==
    { OtherError("EOF"), OtherError("ErrUnexpectedEOF"),
      ConnectionError(ErrCodeProtocol), ConnectionError(ErrCodeFrameSize) }
    \cup { StreamError(i, ErrCodeProtocol) : i \in IDs }

\* Server.MaxReadFrameSize of the modelled server (0: not configured)
SrvMaxReadFrameSize == 0
defaultMaxReadFrameSize == 16384

\* Server.maxReadFrameSize
maxReadFrameSize ==
    IF SrvMaxReadFrameSize >= minMaxFrameSize /\ SrvMaxReadFrameSize <= maxFrameSize
        THEN SrvMaxReadFrameSize
    ELSE defaultMaxReadFrameSize

\* readFrameHeader, the Length it returns for the length bytes b of a
\* frame header: uint32(b[0])<<16 | uint32(b[1])<<7 | uint32(b[2])
readFrameHeader(b) ==
    b[1] * 65536 + b[2] * 128 + b[3]
      - (IF b[2] % 2 = 1 /\ b[3] >= 128 THEN 128 ELSE 0)

\* what the peer puts on the connection: a frame f under a header whose
\* length field is len, or the end of the stream of bytes
Wire(len, f) ==
    [eof |-> FALSE, b |-> <<len \div 65536, (len \div 256) % 256, len % 256>>, f |-> f]

WireEOF == [eof |-> TRUE, b |-> <<0, 0, 0>>, f |-> NoFrame]

\* the length field of the header of w
wireLength(w) == w.b[1] * 65536 + w.b[2] * 256 + w.b[3]

\* Framer.ReadFrame on the bytes w: the header is read, a buffer of
\* fh.Length bytes is made and filled, and the parser of the frame type
\* is given the payload; the length is compared with nothing
ReadFrame(w) ==
    IF w.eof THEN [f |-> NoFrame, err |-> OtherError("EOF")]
    ELSE [f |-> IF w.f.type = "DATA" THEN [w.f EXCEPT !.len = readFrameHeader(w.b)]
                ELSE w.f,
          err |-> NoErr]

\* ------------------------------------------------------------ frame.go
frameHeaderLen == 9

FrameData == 0
FrameHeaders == 1
FrameRSTStream == 3
FrameSettings == 4
FramePing == 6
FrameGoAway == 7
FrameWindowUpdate == 8
FrameContinuation == 9

FlagDataEndStream == 1
FlagDataPadded == 8
FlagHeadersPadded == 8
FlagHeadersPriority == 32
FlagSettingsAck == 1

SettingMaxConcurrentStreams == 3
SettingInitialWindowSize == 4

\* Flags.Has, for a v of one bit
Has(f, v) == (f \div v) % 2 = 1

\* binary.BigEndian.Uint16 and Uint32 of the first bytes of b. Uint32
\* indexes b[3] and panics on a slice shorter than four bytes; its value
\* is kept in two parts, the top bit (Uint32High) and the low 31 bits
\* (Uint31, which is Uint32(b) & (1<<31 - 1))
Uint16(b) == b[1] * 256 + b[2]
Uint32Panics(b) == Len(b) < 4
Uint32High(b) == b[1] >= 128
Uint31(b) == (b[1] % 128) * 16777216 + b[2] * 65536 + b[3] * 256 + b[4]

\* the bytes byte(v>>24), byte(v>>16), byte(v>>8), byte(v) of a uint32
\* below 1<<31
uint32Bytes(v) ==
    <<(v \div 16777216) % 256, (v \div 65536) % 256, (v \div 256) % 256, v % 256>>

\* io.ReadFull of n bytes from the bytes r
ReadFull(r, n) ==
    IF Len(r) >= n THEN [p |-> SubSeq(r, 1, n), r |-> SubSeq(r, n + 1, Len(r)), err |-> NoErr]
    ELSE [p |-> r, r |-> <<>>,
          err |-> IF Len(r) = 0 THEN OtherError("EOF") ELSE OtherError("ErrUnexpectedEOF")]

\* readFrameHeader, the FrameHeader it returns for the 9 bytes b
FrameHeader(b) ==
    [valid |-> TRUE, Length |-> readFrameHeader(b), Type |-> b[4], Flags |-> b[5],
     StreamID |-> Uint31(SubSeq(b, 6, 9))]

\* a frame object: its FrameHeader, its Go type, the byte slice its
\* accessor returns and the bytes of its numeric field
FrameObj(fh, kind, p, v) ==
    [valid |-> fh.valid, Length |-> fh.Length, Type |-> fh.Type, Flags |-> fh.Flags,
     StreamID |-> fh.StreamID, kind |-> kind, p |-> p, v |-> v]

NilFrame ==
    [valid |-> FALSE, Length |-> 0, Type |-> 0, Flags |-> 0, StreamID |-> 0,
     kind |-> "nil", p |-> <<>>, v |-> <<>>]

\* what a frame parser returns: a frame and an error, or a panic
Parsed(f, err) == [f |-> f, err |-> err, panic |-> FALSE]
ParseErr(err) == [f |-> NilFrame, err |-> err, panic |-> FALSE]
ParsePanic == [f |-> NilFrame, err |-> NoErr, panic |-> TRUE]

\* readByte: nothing to read is io.ErrUnexpectedEOF
readByte(p) ==
    IF Len(p) = 0 THEN [remain |-> <<>>, b |-> 0, err |-> OtherError("ErrUnexpectedEOF")]
    ELSE [remain |-> Tail(p), b |-> Head(p), err |-> NoErr]

readUint32(p) ==
    IF Len(p) < 4 THEN [remain |-> <<>>, v |-> <<>>, err |-> OtherError("ErrUnexpectedEOF")]
    ELSE [remain |-> SubSeq(p, 5, Len(p)), v |-> SubSeq(p, 1, 4), err |-> NoErr]

parseDataFrame(fh, payload) ==
    IF fh.StreamID = 0 THEN ParseErr(ConnectionError(ErrCodeProtocol))
    ELSE LET padded == Has(fh.Flags, FlagDataPadded)
             rb == readByte(payload)
             pl == IF padded THEN rb.remain ELSE payload
             padSize == IF padded THEN rb.b ELSE 0
         IN IF padded /\ rb.err # NoErr THEN ParseErr(rb.err)
            ELSE IF padSize > Len(pl) THEN ParseErr(ConnectionError(ErrCodeProtocol))
            ELSE Parsed(FrameObj(fh, "DataFrame", SubSeq(pl, 1, Len(pl) - padSize), <<>>), NoErr)

\* SettingsFrame.Value after its checkValid: the loop over the 6-byte
\* settings of buf; the value of a setting found is read with
\* binary.BigEndian.Uint32(buf[2:4])
RECURSIVE settingsValue(_, _)
settingsValue(buf, s) ==
    IF Len(buf) = 0 THEN [v |-> <<>>, ok |-> FALSE, panic |-> FALSE]
    ELSE IF Uint16(buf) = s
        THEN IF Uint32Panics(SubSeq(buf, 3, 4)) THEN [v |-> <<>>, ok |-> FALSE, panic |-> TRUE]
             ELSE [v |-> SubSeq(buf, 3, 4), ok |-> TRUE, panic |-> FALSE]
    ELSE settingsValue(SubSeq(buf, 7, Len(buf)), s)

\* SettingsFrame.ForeachSetting after its checkValid: whether it panics
\* (each turn of the loop reads binary.BigEndian.Uint32(buf[2:4]))
foreachSettingPanics(buf) == Len(buf) > 0 /\ Uint32Panics(SubSeq(buf, 3, 4))

\* parseSettingsFrame with the test of the stream id made first
parseSettingsFrameStreamFirst(fh, p) ==
    IF fh.StreamID # 0 THEN ParseErr(ConnectionError(ErrCodeProtocol))
    ELSE IF Has(fh.Flags, FlagSettingsAck) /\ fh.Length > 0
        THEN ParseErr(ConnectionError(ErrCodeFrameSize))
    ELSE IF Len(p) % 6 # 0 THEN ParseErr(ConnectionError(ErrCodeFrameSize))
    ELSE LET r == settingsValue(p, SettingInitialWindowSize)
         IN IF r.panic THEN ParsePanic
            ELSE IF r.ok /\ Uint32High(r.v) THEN ParseErr(ConnectionError(ErrCodeFlowControl))
            ELSE Parsed(FrameObj(fh, "SettingsFrame", p, <<>>), NoErr)

parseSettingsFrame(fh, p) ==
    IF Has(fh.Flags, FlagSettingsAck) /\ fh.Length > 0
        THEN ParseErr(ConnectionError(ErrCodeFrameSize))
    ELSE IF fh.StreamID # 0 THEN ParseErr(ConnectionError(ErrCodeProtocol))
    ELSE IF Len(p) % 6 # 0 THEN ParseErr(ConnectionError(ErrCodeFrameSize))
    ELSE LET r == settingsValue(p, SettingInitialWindowSize)
         IN IF r.panic THEN ParsePanic
            ELSE IF r.ok /\ Uint32High(r.v) THEN ParseErr(ConnectionError(ErrCodeFlowControl))
            ELSE Parsed(FrameObj(fh, "SettingsFrame", p, <<>>), NoErr)

parsePingFrame(fh, payload) ==
    IF Len(payload) # 8 THEN ParseErr(ConnectionError(ErrCodeFrameSize))
    ELSE IF fh.StreamID # 0 THEN ParseErr(ConnectionError(ErrCodeProtocol))
    ELSE Parsed(FrameObj(fh, "PingFrame", payload, <<>>), NoErr)

parseGoAwayFrame(fh, p) ==
    IF fh.StreamID # 0 THEN ParseErr(ConnectionError(ErrCodeProtocol))
    ELSE IF Len(p) < 8 THEN ParseErr(ConnectionError(ErrCodeFrameSize))
    ELSE Parsed(FrameObj(fh, "GoAwayFrame", SubSeq(p, 1, 8), SubSeq(p, 5, 8)), NoErr)

parseUnknownFrame(fh, p) == Parsed(FrameObj(fh, "UnknownFrame", p, <<>>), NoErr)

parseWindowUpdateFrame(fh, p) ==
    IF Len(p) < 4 THEN ParseErr(ConnectionError(ErrCodeProtocol))
    ELSE Parsed(FrameObj(fh, "WindowUpdateFrame", <<>>, uint32Bytes(Uint31(p))), NoErr)

parseHeadersFrame(fh, p) ==
    IF fh.StreamID = 0 THEN ParseErr(ConnectionError(ErrCodeProtocol))
    ELSE LET padded == Has(fh.Flags, FlagHeadersPadded)
             prio == Has(fh.Flags, FlagHeadersPriority)
             rb == readByte(p)
             p1 == IF padded THEN rb.remain ELSE p
             padLength == IF padded THEN rb.b ELSE 0
             ru == readUint32(p1)
             rw == readByte(ru.remain)
             p2 == IF prio THEN rw.remain ELSE p1
         IN IF padded /\ rb.err # NoErr THEN ParseErr(rb.err)
            ELSE IF prio /\ ru.err # NoErr THEN ParseErr(ru.err)
            ELSE IF prio /\ rw.err # NoErr THEN ParseErr(rw.err)
            ELSE IF Len(p2) - padLength <= 0 THEN ParseErr(StreamError(fh.StreamID, ""))
            ELSE Parsed(FrameObj(fh, "HeadersFrame", SubSeq(p2, 1, Len(p2) - padLength), <<>>), NoErr)

parseRSTStreamFrame(fh, p) ==
    IF fh.StreamID = 0 \/ Len(p) < 4 THEN ParseErr(ConnectionError(ErrCodeProtocol))
    ELSE Parsed(FrameObj(fh, "RSTStreamFrame", <<>>, SubSeq(p, 1, 4)), NoErr)

parseContinuationFrame(fh, p) == Parsed(FrameObj(fh, "ContinuationFrame", p, <<>>), NoErr)

\* typeFrameParser(fh.Type)(fh, payload)
typeFrameParser(fh, payload) ==
    CASE fh.Type = FrameData -> parseDataFrame(fh, payload)
      [] fh.Type = FrameHeaders -> parseHeadersFrame(fh, payload)
      [] fh.Type = FrameRSTStream -> parseRSTStreamFrame(fh, payload)
      [] fh.Type = FrameSettings -> parseSettingsFrame(fh, payload)
      [] fh.Type = FramePing -> parsePingFrame(fh, payload)
      [] fh.Type = FrameGoAway -> parseGoAwayFrame(fh, payload)
      [] fh.Type = FrameWindowUpdate -> parseWindowUpdateFrame(fh, payload)
      [] fh.Type = FrameContinuation -> parseContinuationFrame(fh, payload)
      [] OTHER -> parseUnknownFrame(fh, payload)

\* the last call made on the Framer: its name, its stream id or frame,
\* its endStream, the length of its data, whether the writer accepted
\* the bytes, and whether the call panicked
Op(name, i, e, n, accept, panic) ==
    [name |-> name, i |-> i, e |-> e, n |-> n, accept |-> accept, panic |-> panic]

\* NewFramer over a connection that holds no bytes. r: the bytes the
\* reader has yet to read; writes: the Write calls of the last write
\* method; frames: the frame objects ReadFrame returned; ret: the one the
\* last call returned (0: none); nSent: frames put on the connection
NewFramer ==
    [r |-> <<>>, wbuf |-> <<>>, writes |-> <<>>, werr |-> NoErr,
     frames |-> <<>>, lastFrame |-> 0, ret |-> 0, rerr |-> NoErr, panic |-> FALSE,
     fh |-> FrameHeader(<<0, 0, 0, 0, 0, 0, 0, 0, 0>>),
     op |-> Op("NewFramer", 0, FALSE, 0, FALSE, FALSE), nSent |-> 0]

\* FrameHeader.invalidate on the frame fr.lastFrame
invalidate(fr) ==
    IF fr.lastFrame # 0 THEN [fr EXCEPT !.frames[fr.lastFrame].valid = FALSE] ELSE fr

\* Framer.ReadFrame
framerReadFrame(fr) ==
    LET fr1 == invalidate(fr)
        h == ReadFull(fr1.r, frameHeaderLen)
        fh == FrameHeader(h.p)
        pl == ReadFull(h.r, fh.Length)
        res == typeFrameParser(fh, pl.p)
    IN IF h.err # NoErr THEN [fr1 EXCEPT !.r = h.r, !.ret = 0, !.rerr = h.err]
       ELSE IF pl.err # NoErr THEN [fr1 EXCEPT !.r = pl.r, !.ret = 0, !.rerr = pl.err]
       ELSE IF res.panic THEN [fr1 EXCEPT !.r = pl.r, !.ret = 0, !.panic = TRUE]
       ELSE IF res.err # NoErr THEN [fr1 EXCEPT !.r = pl.r, !.ret = 0, !.rerr = res.err]
       ELSE [fr1 EXCEPT !.r = pl.r, !.frames = Append(@, res.f),
                        !.lastFrame = Len(fr1.frames) + 1, !.ret = Len(fr1.frames) + 1,
                        !.rerr = NoErr]

\* ReadFrameHeader: the 9 bytes are read and the header returned
framerReadFrameHeader(fr) ==
    LET h == ReadFull(fr.r, frameHeaderLen)
    IN IF h.err # NoErr THEN [fr EXCEPT !.r = h.r, !.rerr = h.err]
       ELSE [fr EXCEPT !.r = h.r, !.rerr = NoErr, !.fh = FrameHeader(h.p)]

\* Framer.startWrite
startWrite(fr, ftype, flags, streamID) ==
    [fr EXCEPT !.wbuf = <<0, 0, 0, ftype, flags>> \o uint32Bytes(streamID), !.writes = <<>>]

\* Framer.endWrite. accept: the underlying writer takes all the bytes
\* and returns their number and no error; otherwise it takes none and
\* returns an error
endWrite(fr, accept) ==
    LET length == Len(fr.wbuf) - frameHeaderLen
        wbuf == <<(length \div 65536) % 256, (length \div 256) % 256, length % 256>>
                  \o SubSeq(fr.wbuf, 4, Len(fr.wbuf))
        n == IF accept THEN Len(wbuf) ELSE 0
        werr == IF accept THEN NoErr ELSE OtherError("write")
        err == IF werr = NoErr /\ n # length THEN OtherError("ErrShortWrite") ELSE werr
    IN [fr EXCEPT !.wbuf = wbuf, !.writes = Append(@, wbuf),
                  !.r = IF accept THEN @ \o wbuf ELSE @, !.werr = err]

\* Framer.writeUint32
writeUint32(fr, v) == [fr EXCEPT !.wbuf = @ \o uint32Bytes(v)]

\* Framer.WriteData
framerWriteData(fr, streamID, endStream, data, accept) ==
    LET flags == IF endStream THEN FlagDataEndStream ELSE 0
        fr1 == startWrite(fr, FrameData, flags, streamID)
    IN endWrite([fr1 EXCEPT !.wbuf = @ \o data], accept)

\* Framer.WriteRSTStream
framerWriteRSTStream(fr, streamID, errCode, accept) ==
    endWrite(writeUint32(startWrite(fr, FrameRSTStream, 0, streamID), errCode), accept)

\* a payload accessor of the frame object f (Data, HeaderBlockFragment,
\* DebugData, Payload, Value(s), ForeachSetting): checkValid, then the
\* body of the accessor
accessorPanics(f, name, s) ==
    \/ ~f.valid
    \/ name = "Value" /\ settingsValue(f.p, s).panic
    \/ name = "ForeachSetting" /\ foreachSettingPanics(f.p)

AccessorNames == {"Data", "HeaderBlockFragment", "DebugData", "Payload", "Value", "ForeachSetting"}

\* the payload accessors of a frame of the Go type kind
Accessors(kind) ==
    CASE kind = "DataFrame" -> {"Data"}
      [] kind \in {"HeadersFrame", "ContinuationFrame"} -> {"HeaderBlockFragment"}
      [] kind = "GoAwayFrame" -> {"DebugData"}
      [] kind = "UnknownFrame" -> {"Payload"}
      [] kind = "SettingsFrame" -> {"Value", "ForeachSetting"}
      [] OTHER -> {}

\* ----------------------------------------------------- readFrames goroutine
\* the readFrames goroutine before its first ReadFrame call: pc is "read"
\* (in Framer.ReadFrame), "send" (sending on readFrameCh), "wait" (in
\* g.Wait) or "exit" (returned); g is the number of signals in the gate,
\* valid tells that the frame last returned has not been invalidated
NewReader ==
    [pc |-> "read", f |-> NoFrame, err |-> NoErr, g |-> 0, valid |-> FALSE,
     sent |-> 0, signalled |-> 0]

\* readFrames: ReadFrame returned the frame f
readFramesGot(r, f) == [r EXCEPT !.pc = "send", !.f = f, !.valid = TRUE]

\* readFrames: ReadFrame returned an error, which is left on
\* readFrameErrCh; readFrameCh is closed and the goroutine returns
readFramesErr(r, err) == [r EXCEPT !.pc = "exit", !.err = err, !.valid = FALSE]

\* readFrames that goes on to the next ReadFrame call after its send
readFramesSentNoWait(r) ==
    [r EXCEPT !.pc = "read", !.sent = @ + 1, !.valid = FALSE]

\* readFrames: the send on readFrameCh was received; next is g.Wait()
readFramesSent(r) == [r EXCEPT !.pc = "wait", !.sent = @ + 1]

\* gate.Done, called by processFrameFromReader after processFrame
gateDone(r) == [r EXCEPT !.g = @ + 1, !.signalled = @ + 1]

\* gate.Wait returns; the next ReadFrame call invalidates the frame
gateWait(r) == [r EXCEPT !.g = @ - 1, !.pc = "read", !.valid = FALSE]

\* orders in which a range over sc.streams can visit the streams
OddIDs == { i \in IDs : i % 2 = 1 }
Orders == { o \in [1 .. Cardinality(OddIDs) -> OddIDs] :
              \A i, j \in 1 .. Cardinality(OddIDs) : i # j => o[i] # o[j] }

\* ------------------------------------------------------------------ Init
Init ==
    /\ pc = "start"
    /\ streams = {}
    /\ st = [i \in IDs |-> NewStream]
    /\ curOpenStreams = 0
    /\ maxStreamID = 0
    /\ req = NoReq
    /\ sawFirstSettings = FALSE
    /\ needToSendSettingsAck = FALSE
    /\ writingFrame = FALSE
    /\ needsFrameFlush = FALSE
    /\ inGoAway = FALSE
    /\ needToSendGoAway = FALSE
    /\ goAwayCode = ErrCodeNo
    /\ shutdownTimer = "nil"
    /\ writeSched = <<>>
    /\ peer = [HEADER_TABLE_SIZE |-> 4096, ENABLE_PUSH |-> 1, MAX_CONCURRENT_STREAMS |-> 0,
               MAX_FRAME_SIZE |-> minMaxFrameSize, MAX_HEADER_LIST_SIZE |-> 0]
    /\ initialWindowSize = initialWindowSizeDefault
    /\ flow = flowAdd(0, initialWindowSizeDefault)
    /\ wroteFrameCh = 0
    /\ writers = <<>>
    /\ hpc = [i \in IDs |-> "none"]
    /\ firstWrite = NoWM
    /\ nAckStarted = 0
    /\ nGoAwayStarted = 0
    /\ wantWriteFrameCh = <<>>
    /\ hdone = [i \in IDs |-> 0]
    /\ hwrites = [i \in IDs |-> 0]
    /\ hread = [i \in IDs |-> 0]
    /\ settingsTimer = "stopped"
    /\ readFrameCh = "off"
    /\ nFrames = 0
    /\ fg = [type |-> NoFrame.type, id |-> NoFrame.id]
    /\ nSettings = 0
    /\ exitCause = "none"
    /\ tlsOld = FALSE
    /\ framer = NewFramer
    /\ frameReader = NewReader

\* --------------------------------------------------------- serve goroutine
\* serve, up to readPreface: the initial SETTINGS write
ServeStart ==
    /\ pc = "start"
    /\ Commit([writeFrame(SC, writeSettingsInitial)
                  EXCEPT !.pc = IF @ = "start" THEN "preface" ELSE @])
    /\ UNCHANGED <<wantWriteFrameCh, hdone, hwrites, hread, settingsTimer, readFrameCh,
                   nFrames, fg, nSettings, exitCause, tlsOld, framer, frameReader>>

\* readPreface returns; on success readFrames is started and the
\* settings timer armed, on an error or a timeout serve returns
ReadPreface(ok) ==
    /\ pc = "preface"
    /\ IF ok
       THEN /\ Commit([SC EXCEPT !.pc = "loop"])
            /\ readFrameCh' = "open"
            /\ settingsTimer' = "armed"
            /\ UNCHANGED exitCause
       ELSE /\ \E ord \in Orders : Commit(serveReturn(SC, ord))
            /\ exitCause' = "preface"
            /\ UNCHANGED <<readFrameCh, settingsTimer>>
    /\ UNCHANGED <<wantWriteFrameCh, hdone, hwrites, hread, nFrames, fg, nSettings, tlsOld, framer, frameReader>>

\* case wm := <-sc.wantWriteFrameCh
WantWrite ==
    /\ pc = "loop"
    /\ wantWriteFrameCh # <<>>
    /\ Commit(writeFrame(SC, Head(wantWriteFrameCh)))
    /\ wantWriteFrameCh' = Tail(wantWriteFrameCh)
    /\ UNCHANGED <<hdone, hwrites, hread, settingsTimer, readFrameCh, nFrames, nSettings,
                   exitCause, tlsOld, framer, frameReader>>
    /\ fg' = [type |-> NoFrame.type, id |-> NoFrame.id]

\* case <-sc.wroteFrameCh
WroteFrame ==
    /\ pc = "loop"
    /\ wroteFrameCh > 0
    /\ Commit(scheduleFrameWrite([SC EXCEPT !.wroteFrameCh = @ - 1,
                                            !.writingFrame = FALSE]))
    /\ UNCHANGED <<wantWriteFrameCh, hdone, hwrites, hread, settingsTimer, readFrameCh,
                   nFrames, nSettings, exitCause, tlsOld, framer, frameReader>>
    /\ fg' = [type |-> NoFrame.type, id |-> NoFrame.id]

\* the end of case fg, ok := <-sc.readFrameCh for a result r of
\* processFrameFromReader: serve returns, or stops the settings timer
AfterRead(r, ord) ==
    /\ IF Halted(r.s) THEN Commit(r.s) /\ UNCHANGED <<settingsTimer, exitCause>>
       ELSE IF ~r.keep
            THEN Commit(serveReturn(r.s, ord)) /\ exitCause' = "read" /\ UNCHANGED settingsTimer
       ELSE Commit(r.s) /\ settingsTimer' = "stopped" /\ UNCHANGED exitCause
    /\ nFrames' = nFrames + 1

\* a non-ACK SETTINGS frame that processSettings accepts
settingsAccepted(s, f, ord) ==
    f.type = "SETTINGS" /\ ~f.ack /\ processFrame(s, f, ord).err = NoErr

\* case fg, ok := <-sc.readFrameCh with a frame
RecvFrame(f, max) ==
    /\ pc = "loop"
    /\ readFrameCh = "open"
    /\ nFrames < max
    /\ \E ord \in Orders :
         /\ AfterRead(processFrameFromReader(SC, f, ord), ord)
         /\ nSettings' = IF settingsAccepted(SC, f, ord) THEN nSettings + 1 ELSE nSettings
    /\ fg' = [type |-> f.type, id |-> f.id]
    /\ UNCHANGED <<wantWriteFrameCh, hdone, hwrites, hread, readFrameCh, tlsOld, framer, frameReader>>

\* case fg, ok := <-sc.readFrameCh after readFrames closed the channel
RecvReadError(err, max) ==
    /\ pc = "loop"
    /\ readFrameCh = "open"
    /\ nFrames < max
    /\ \E ord \in Orders : AfterRead(processReadError(SC, err), ord)
    /\ readFrameCh' = "nil"
    /\ fg' = [type |-> NoFrame.type, id |-> NoFrame.id]
    /\ UNCHANGED <<wantWriteFrameCh, hdone, hwrites, hread, nSettings, tlsOld, framer, frameReader>>

\* case <-settingsTimer.C
SettingsTimeout ==
    /\ pc = "loop"
    /\ settingsTimer = "armed"
    /\ \E ord \in Orders : Commit(serveReturn(SC, ord))
    /\ exitCause' = "settingsTimer"
    /\ UNCHANGED <<wantWriteFrameCh, hdone, hwrites, hread, settingsTimer, readFrameCh,
                   nFrames, nSettings, tlsOld, framer, frameReader>>
    /\ fg' = [type |-> NoFrame.type, id |-> NoFrame.id]

\* case <-sc.shutdownTimerCh
ShutdownTimeout ==
    /\ pc = "loop"
    /\ shutdownTimer # "nil"
    /\ \E ord \in Orders : Commit(serveReturn(SC, ord))
    /\ exitCause' = "shutdownTimer"
    /\ UNCHANGED <<wantWriteFrameCh, hdone, hwrites, hread, settingsTimer, readFrameCh,
                   nFrames, nSettings, tlsOld, framer, frameReader>>
    /\ fg' = [type |-> NoFrame.type, id |-> NoFrame.id]

\* ------------------------------------------------------- writer goroutines
RemoveAt(q, i) == SubSeq(q, 1, i - 1) \o SubSeq(q, i + 1, Len(q))

\* writeFrameAsync up to its last statement: the frame is written and the
\* error sent on wm.done (a full done channel makes the goroutine panic)
WriterWrite(i) ==
    /\ pc # "panic"
    /\ i \in 1 .. Len(writers)
    /\ writers[i].stage = "write"
    /\ LET wm == writers[i].wm
           full == wm.done /\ hdone[wm.stream] >= frameWriteChCap
       IN /\ pc' = IF full THEN "panic" ELSE pc
          /\ hdone' = IF wm.done /\ ~full THEN [hdone EXCEPT ![wm.stream] = @ + 1] ELSE hdone
          /\ writers' = IF full THEN writers ELSE [writers EXCEPT ![i].stage = "wrote"]
    /\ UNCHANGED <<streams, st, curOpenStreams, maxStreamID, req, sawFirstSettings,
                   needToSendSettingsAck, writingFrame, needsFrameFlush, inGoAway,
                   needToSendGoAway, goAwayCode, shutdownTimer, writeSched, peer,
                   initialWindowSize, flow, wroteFrameCh, hpc, firstWrite, nAckStarted,
                   nGoAwayStarted, wantWriteFrameCh, hwrites, hread, settingsTimer,
                   readFrameCh, nFrames, fg, nSettings, exitCause, tlsOld, framer, frameReader>>

\* writeFrameAsync, its last statement: sc.wroteFrameCh <- struct{}{}
WriterDeliver(i) ==
    /\ pc # "panic"
    /\ i \in 1 .. Len(writers)
    /\ writers[i].stage = "wrote"
    /\ wroteFrameCh < wroteFrameChCap
    /\ wroteFrameCh' = wroteFrameCh + 1
    /\ writers' = RemoveAt(writers, i)
    /\ UNCHANGED <<pc, streams, st, curOpenStreams, maxStreamID, req, sawFirstSettings,
                   needToSendSettingsAck, writingFrame, needsFrameFlush, inGoAway,
                   needToSendGoAway, goAwayCode, shutdownTimer, writeSched, peer,
                   initialWindowSize, flow, hpc, firstWrite, nAckStarted,
                   nGoAwayStarted, wantWriteFrameCh, hdone, hwrites, hread, settingsTimer,
                   readFrameCh, nFrames, fg, nSettings, exitCause, tlsOld, framer, frameReader>>

\* ------------------------------------------------------ handler goroutines
handlerUnchanged ==
    UNCHANGED <<pc, streams, curOpenStreams, maxStreamID, req, sawFirstSettings,
                needToSendSettingsAck, writingFrame, needsFrameFlush, inGoAway,
                needToSendGoAway, goAwayCode, shutdownTimer, writeSched, peer,
                initialWindowSize, flow, wroteFrameCh, writers, firstWrite, nAckStarted,
                nGoAwayStarted, settingsTimer, readFrameCh, nFrames, fg, nSettings, exitCause, tlsOld, framer, frameReader>>

doneServing == pc = "done"

\* serverConn.writeFrameFromHandler: the send on wantWriteFrameCh, or
\* nothing once doneServing is closed
writeFrameFromHandler(wm) ==
    \/ /\ Len(wantWriteFrameCh) < wantWriteFrameChCap
       /\ wantWriteFrameCh' = Append(wantWriteFrameCh, wm)
    \/ /\ doneServing
       /\ UNCHANGED wantWriteFrameCh

\* writeChunk, first chunk: serverConn.writeHeaders up to its select.
\* end: the handler is done and wrote no body; withH: there is a header map
HandlerWriteHeaders(i, end, withH) ==
    /\ pc # "panic"
    /\ hpc[i] = "run"
    /\ hwrites[i] < MaxHandlerWrites
    /\ writeFrameFromHandler(writeResHeaders(i, end, withH))
    /\ hwrites' = [hwrites EXCEPT ![i] = @ + 1]
    /\ hpc' = [hpc EXCEPT ![i] = IF withH THEN (IF end THEN "hdrWaitEnd" ELSE "hdrWait")
                                 ELSE (IF end THEN "exit" ELSE "sent")]
    /\ UNCHANGED <<st, hdone, hread>>
    /\ handlerUnchanged

\* the select of serverConn.writeHeaders: errc or doneServing
HandlerHeadersDone(i, via) ==
    /\ pc # "panic"
    /\ hpc[i] \in {"hdrWait", "hdrWaitEnd"}
    /\ \/ via = "ch" /\ hdone[i] > 0 /\ hdone' = [hdone EXCEPT ![i] = @ - 1]
       \/ via = "doneServing" /\ doneServing /\ UNCHANGED hdone
    /\ hpc' = [hpc EXCEPT ![i] = IF @ = "hdrWaitEnd" THEN "exit" ELSE "sent"]
    /\ UNCHANGED <<st, hwrites, hread, wantWriteFrameCh>>
    /\ handlerUnchanged

\* writeChunk, a DATA chunk: serverConn.writeDataFromHandler up to its
\* select. end: the handler is done (the chunk carries END_STREAM)
HandlerWriteData(i, end) ==
    /\ pc # "panic"
    /\ hpc[i] = "sent"
    /\ hwrites[i] < MaxHandlerWrites
    /\ writeFrameFromHandler(writeData(i, end))
    /\ hwrites' = [hwrites EXCEPT ![i] = @ + 1]
    /\ hpc' = [hpc EXCEPT ![i] = IF end THEN "dataWaitEnd" ELSE "dataWait"]
    /\ UNCHANGED <<st, hdone, hread>>
    /\ handlerUnchanged

\* the select of serverConn.writeDataFromHandler: ch, doneServing or stream.cw
HandlerDataDone(i, via) ==
    /\ pc # "panic"
    /\ hpc[i] \in {"dataWait", "dataWaitEnd"}
    /\ \/ via = "ch" /\ hdone[i] > 0 /\ hdone' = [hdone EXCEPT ![i] = @ - 1]
       \/ via = "doneServing" /\ doneServing /\ UNCHANGED hdone
       \/ via = "cw" /\ st[i].cw /\ UNCHANGED hdone
    /\ hpc' = [hpc EXCEPT ![i] = IF @ = "dataWaitEnd" THEN "exit" ELSE "sent"]
    /\ UNCHANGED <<st, hwrites, hread, wantWriteFrameCh>>
    /\ handlerUnchanged

\* requestBody.Read returning n > 0 bytes: serverConn.sendWindowUpdate
HandlerReadBody(i) ==
    /\ pc # "panic"
    /\ hpc[i] \in {"run", "sent"}
    /\ hwrites[i] < MaxHandlerWrites
    /\ st[i].body # "nil"
    /\ hread[i] < st[i].bodyBytes
    /\ hread' = [hread EXCEPT ![i] = st[i].bodyBytes]
    /\ writeFrameFromHandler(writeWindowUpdate(i))
    /\ hwrites' = [hwrites EXCEPT ![i] = @ + 1]
    /\ UNCHANGED <<st, hdone, hpc>>
    /\ handlerUnchanged

\* ------------------------------------------------------------------ Next
\* the steps of the serve goroutine that take no reader event, of the
\* writeFrameAsync goroutines and of the handler goroutines
Local ==
    \/ ServeStart
    \/ \E ok \in BOOLEAN : ReadPreface(ok)
    \/ WantWrite
    \/ WroteFrame
    \/ SettingsTimeout
    \/ ShutdownTimeout
    \/ \E i \in 1 .. Len(writers) : WriterWrite(i)
    \/ \E i \in 1 .. Len(writers) : WriterDeliver(i)
    \/ \E i \in IDs, end \in BOOLEAN, withH \in BOOLEAN : HandlerWriteHeaders(i, end, withH)
    \/ \E i \in IDs, via \in {"ch", "doneServing"} : HandlerHeadersDone(i, via)
    \/ \E i \in IDs, end \in BOOLEAN : HandlerWriteData(i, end)
    \/ \E i \in IDs, via \in {"ch", "doneServing", "cw"} : HandlerDataDone(i, via)
    \/ \E i \in IDs : HandlerReadBody(i)

\* a peer that sends any MaxFrames of the frames
Next ==
    \/ Local
    \/ \E f \in Frames : RecvFrame(f, MaxFrames)
    \/ \E err \in ReadErrors : RecvReadError(err, MaxFrames)

Spec == Init /\ [][Next]_vars

\* a peer that opens one request and sends MaxFramesDeep frames of the
\* kinds SETTINGS, HEADERS, DATA, RST_STREAM and PING; the request has no
\* Content-Length (-1) or declares DeclaredLen or -DeclaredLen
\* (strconv.ParseInt accepts a sign)
DeepFrames ==
    { Frame("SETTINGS", 0, FALSE, FALSE, FALSE, 0, 0, <<>>, EmptyFrag, -1, 0) }
    \cup { Frame("HEADERS", 1, FALSE, FALSE, TRUE, 0, 0, <<>>, OkFrag, c, 0) :
             c \in {-1, DeclaredLen, -DeclaredLen} }
    \cup { Frame("DATA", 1, FALSE, FALSE, FALSE, 0, n, <<>>, EmptyFrag, -1, 0) :
             n \in {1, DeclaredLen} }
    \cup { Frame("RST_STREAM", 1, FALSE, FALSE, FALSE, 0, 0, <<>>, EmptyFrag, -1, 0) }
    \cup { Frame("PING", 0, FALSE, FALSE, FALSE, 0, 0, <<>>, EmptyFrag, -1, 0) }

DeepReadErrors == { OtherError("EOF") }

NextDeep ==
    \/ Local
    \/ \E f \in DeepFrames : RecvFrame(f, MaxFramesDeep)
    \/ \E err \in DeepReadErrors : RecvReadError(err, MaxFramesDeep)

SpecDeep == Init /\ [][NextDeep]_vars

\* a peer that opens one request, ends its body, and sends MaxFramesFlow
\* frames of the kinds SETTINGS (with INITIAL_WINDOW_SIZE), HEADERS, DATA
\* and WINDOW_UPDATE
FlowFrames ==
    { Frame("SETTINGS", 0, FALSE, FALSE, FALSE, 0, 0, p, EmptyFrag, -1, 0) :
        p \in { <<>>, <<Setting("INITIAL_WINDOW_SIZE", MaxWindow)>>,
                <<Setting("INITIAL_WINDOW_SIZE", 0)>> } }
    \cup { Frame("HEADERS", 1, FALSE, FALSE, TRUE, 0, 0, <<>>, OkFrag, -1, 0) }
    \cup { Frame("DATA", 1, FALSE, TRUE, FALSE, 0, 1, <<>>, EmptyFrag, -1, 0) }
    \cup { Frame("WINDOW_UPDATE", i, FALSE, FALSE, FALSE, n, 0, <<>>, EmptyFrag, -1, 0) :
             i \in {0, 1}, n \in {1, MaxWindow} }

NextFlow ==
    \/ Local
    \/ \E f \in FlowFrames : RecvFrame(f, MaxFramesFlow)
    \/ \E err \in DeepReadErrors : RecvReadError(err, MaxFramesFlow)

SpecFlow == Init /\ [][NextFlow]_vars

\* length fields of the DATA frames of WireFrames: one the reader is
\* willing to read and one above maxReadFrameSize
WireLengths == {1, 65537}

\* a peer that opens one request and whose frames are read by
\* Framer.ReadFrame from the bytes it sent
WireFrames ==
    { Wire(0, Frame("SETTINGS", 0, FALSE, FALSE, FALSE, 0, 0, <<>>, EmptyFrag, -1, 0)) }
    \cup { Wire(1, Frame("HEADERS", 1, FALSE, FALSE, TRUE, 0, 0, <<>>, OkFrag, -1, 0)) }
    \cup { Wire(n, Frame("DATA", 1, FALSE, FALSE, FALSE, 0, n, <<>>, EmptyFrag, -1, 0)) :
             n \in WireLengths }
    \cup { Wire(4, Frame("RST_STREAM", 1, FALSE, FALSE, FALSE, 0, 0, <<>>, EmptyFrag, -1, 0)) }
    \cup { WireEOF }

\* readFrames: one call of ReadFrame, whose result reaches serve through
\* readFrameCh, or through readFrameErrCh and the closed readFrameCh
readFrames(w, max) ==
    LET r == ReadFrame(w)
    IN IF r.err = NoErr THEN RecvFrame(r.f, max) ELSE RecvReadError(r.err, max)

NextRead ==
    \/ Local
    \/ \E w \in WireFrames : readFrames(w, MaxFrames)

SpecRead == Init /\ [][NextRead]_vars

\* opaque data of the PING frames of PingFrames
PingData == {1, 2}

\* a peer that opens one request, sends a body, overflows the connection
\* window (GOAWAY) and sends PING frames, with and without ACK, that carry
\* different opaque data
PingFrames ==
    { Frame("SETTINGS", 0, FALSE, FALSE, FALSE, 0, 0, <<>>, EmptyFrag, -1, 0) }
    \cup { Frame("HEADERS", 1, FALSE, FALSE, TRUE, 0, 0, <<>>, OkFrag, -1, 0) }
    \cup { Frame("DATA", 1, FALSE, FALSE, FALSE, 0, 1, <<>>, EmptyFrag, -1, 0) }
    \cup { Frame("WINDOW_UPDATE", 0, FALSE, FALSE, FALSE, MaxWindow, 0, <<>>, EmptyFrag, -1, 0) }
    \cup { Frame("PING", 0, a, FALSE, FALSE, 0, 0, <<>>, EmptyFrag, -1, d) :
             a \in BOOLEAN, d \in PingData }

NextPing ==
    \/ Local
    \/ \E f \in PingFrames : RecvFrame(f, MaxFrames)
    \/ \E err \in DeepReadErrors : RecvReadError(err, MaxFrames)

\* serve takes a ready completion or a fired shutdown timer in the end
\* (select chooses among the ready cases at random), and a running
\* writeFrameAsync goroutine is scheduled
SpecPingFair ==
    /\ Init /\ [][NextPing]_vars
    /\ WF_vars(WroteFrame)
    /\ WF_vars(ShutdownTimeout)
    /\ WF_vars(\E i \in 1 .. Len(writers) : WriterWrite(i))
    /\ WF_vars(\E i \in 1 .. Len(writers) : WriterDeliver(i))

\* a peer that opens one request, ends its body and sends RST_STREAM
\* frames for that stream and for the stream 3 it never opened
ResetFrames ==
    { Frame("SETTINGS", 0, FALSE, FALSE, FALSE, 0, 0, <<>>, EmptyFrag, -1, 0) }
    \cup { Frame("HEADERS", 1, FALSE, FALSE, TRUE, 0, 0, <<>>, OkFrag, -1, 0) }
    \cup { Frame("DATA", 1, FALSE, TRUE, FALSE, 0, 1, <<>>, EmptyFrag, -1, 0) }
    \cup { Frame("RST_STREAM", i, FALSE, FALSE, FALSE, 0, 0, <<>>, EmptyFrag, -1, 0) : i \in {1, 3} }

NextReset ==
    \/ Local
    \/ \E f \in ResetFrames : RecvFrame(f, MaxFramesDeep)
    \/ \E err \in DeepReadErrors : RecvReadError(err, MaxFramesDeep)

SpecReset == Init /\ [][NextReset]_vars

\* header fields of the modelled requests: the four pseudo-headers with
\* an empty and a usual value, an undefined pseudo-header and a regular
\* header
HeaderFields ==
    { HF(":method", v) : v \in {"", "GET"} }
    \cup { HF(":path", v) : v \in {"", "/"} }
    \cup { HF(":scheme", v) : v \in {"", "https"} }
    \cup { HF(":authority", v) : v \in {"", "example.com"} }
    \cup { HF(":status", "200"), HF("accept", "text/html") }

\* fragments of no, one or two header fields
HeaderFrags ==
    { EmptyFrag }
    \cup { Frag(<<a>>) : a \in HeaderFields }
    \cup { Frag(<<a, b>>) : a \in HeaderFields, b \in HeaderFields }

\* a peer that sends the header block of one request in a HEADERS frame
\* and CONTINUATION frames
HdrFrames ==
    { Frame("SETTINGS", 0, FALSE, FALSE, FALSE, 0, 0, <<>>, EmptyFrag, -1, 0) }
    \cup { Frame("HEADERS", 1, FALSE, FALSE, eh, 0, 0, <<>>, Frag(<<a>>), -1, 0) :
             eh \in BOOLEAN, a \in HeaderFields }
    \cup { Frame("CONTINUATION", 1, FALSE, FALSE, eh, 0, 0, <<>>, fr, -1, 0) :
             eh \in BOOLEAN, fr \in HeaderFrags }

\* the serve goroutine and the writeFrameAsync goroutines; the handler of
\* the request takes no step
NextHdr ==
    \/ ServeStart
    \/ \E ok \in BOOLEAN : ReadPreface(ok)
    \/ WroteFrame
    \/ \E i \in 1 .. Len(writers) : WriterWrite(i)
    \/ \E i \in 1 .. Len(writers) : WriterDeliver(i)
    \/ \E f \in HdrFrames : RecvFrame(f, MaxFramesDeep)

SpecHdr == Init /\ [][NextHdr]_vars

\* ------------------------------------------------------------ properties
\* the frame f is the one received in this step
Received(f) == fg' = [type |-> f.type, id |-> f.id] /\ RecvFrame(f, MaxFrames)
ReceivedDeep(f) == fg' = [type |-> f.type, id |-> f.id] /\ RecvFrame(f, MaxFramesDeep)
ReceivedFlow(f) == fg' = [type |-> f.type, id |-> f.id] /\ RecvFrame(f, MaxFramesFlow)

\* C1: in every reachable state at most one writeFrameAsync goroutine is
\* running, that is, has been started by startFrameWrite and has not yet
\* delivered its completion on wroteFrameCh.
C1_AtMostOneWriter == Len(writers) <= 1

\* C2: every non-ACK SETTINGS frame that processSettings accepted gets its
\* own SETTINGS-ACK write: once no ACK is pending any more, as many ACK
\* writes have been started as SETTINGS frames were accepted.
C2_EverySettingsAcked == ~needToSendSettingsAck => nAckStarted = nSettings

\* C3: the first frame write started on the connection is the non-ACK
\* SETTINGS carrying MAX_FRAME_SIZE and MAX_CONCURRENT_STREAMS, and it is
\* started before the client preface is read; once a SETTINGS frame of the
\* peer was accepted, the SETTINGS-ACK write has been started or is pending
\* behind a frame write in flight, hence after the initial SETTINGS.
C3_ServerPreface ==
    /\ pc # "start" =>
          /\ firstWrite.kind = "SETTINGS"
          /\ firstWrite.settings = {"MAX_FRAME_SIZE", "MAX_CONCURRENT_STREAMS"}
    /\ nAckStarted > 0 => firstWrite.kind = "SETTINGS"
    /\ nSettings > 0 => (nAckStarted > 0 \/ needToSendSettingsAck)
    /\ needToSendSettingsAck => writingFrame

\* C3 witness: the peer's SETTINGS was accepted and its ACK write started
C3_AckStarted ==
    nSettings > 0 /\ nAckStarted > 0 /\ firstWrite.kind = "SETTINGS" /\ pc = "loop"

\* C4: when the first frame handed to processFrame is anything other than
\* a SETTINGS frame without ACK (a SETTINGS frame with ACK included), the
\* server enters GOAWAY with PROTOCOL_ERROR and the frame has no other
\* effect on the connection state.
C4_FirstFrameMustBeSettings ==
    [][\A f \in Frames :
         (nFrames = 0 /\ ~(f.type = "SETTINGS" /\ ~f.ack) /\ Received(f)) =>
            /\ inGoAway' /\ goAwayCode' = ErrCodeProtocol
            /\ UNCHANGED <<streams, st, curOpenStreams, maxStreamID, req, sawFirstSettings,
                           needToSendSettingsAck, peer, initialWindowSize, flow>>]_vars

\* C5: when the settings timer fires before any frame was processed, a
\* GOAWAY write is started before serve returns and the connection closes.
C5_TimeoutSendsGoAway == exitCause = "settingsTimer" => nGoAwayStarted > 0

\* C6: while a header block is in progress, processFrame answers every
\* frame that is not a CONTINUATION on the stream of the block with a
\* connection error PROTOCOL_ERROR without dispatching it (nothing but the
\* frame's arrival is recorded), the serve loop then is in GOAWAY with
\* PROTOCOL_ERROR, and the stream of the block in progress changes only by
\* the block ending: at most one stream id is in progress.
C6_HeaderBlockExclusive ==
    /\ []((req.stream # 0 /\ pc = "loop" /\ readFrameCh = "open" /\ nFrames < MaxFrames) =>
            \A f \in Frames, ord \in Orders :
               ~(f.type = "CONTINUATION" /\ f.id = req.stream) =>
                  processFrame(SC, f, ord) = Res(SC, ConnectionError(ErrCodeProtocol)))
    /\ [][req.stream # 0 =>
            /\ req'.stream \in {0, req.stream}
            /\ nFrames' # nFrames =>
                  \A f \in Frames :
                     (~(f.type = "CONTINUATION" /\ f.id = req.stream)
                        /\ Received(f)) =>
                          /\ inGoAway' /\ goAwayCode' = ErrCodeProtocol
                          /\ UNCHANGED <<streams, st, curOpenStreams, maxStreamID, req,
                                         peer, initialWindowSize, flow, hpc>>]_vars

\* C6 witness: a DATA frame on stream 1 was rejected while the header
\* block of stream 1 was in progress, and left the stream untouched
C6_RejectedInBlock ==
    /\ req.stream = 1 /\ inGoAway /\ goAwayCode = ErrCodeProtocol
    /\ fg.type = "DATA" /\ fg.id = 1
    /\ readFrameCh = "open" /\ st[1].state = stateOpen /\ st[1].bodyBytes = 0

\* C7 as stated: a HEADERS frame whose stream id is even or not greater
\* than maxStreamID is answered with a connection error PROTOCOL_ERROR.
C7_BadIdIsProtocolError ==
    (pc = "loop" /\ readFrameCh = "open") =>
        \A f \in HeadersFrames, ord \in Orders :
            (f.id % 2 = 0 \/ f.id <= maxStreamID) =>
                processFrame(SC, f, ord).err = ConnectionError(ErrCodeProtocol)

\* C7 amended: such a HEADERS frame creates no stream and is answered with
\* a connection error PROTOCOL_ERROR, except in GOAWAY (after the first
\* SETTINGS, no header block in progress), where it is ignored without an
\* error; the ids of the streams created are odd and greater than every id
\* seen before, no stream is created in GOAWAY, and maxStreamID never
\* decreases.
C7_HeadersIdOrder ==
    /\ [](\A f \in HeadersFrames, ord \in Orders :
            (/\ pc = "loop" /\ readFrameCh = "open" /\ nFrames < MaxFrames
             /\ (f.id % 2 = 0 \/ f.id <= maxStreamID)) =>
               LET r == processFrame(SC, f, ord)
               IN /\ r.err = IF inGoAway /\ sawFirstSettings /\ req.stream = 0
                             THEN NoErr ELSE ConnectionError(ErrCodeProtocol)
                  /\ r.s \in {SC, [SC EXCEPT !.sawFirstSettings = TRUE]})
    /\ [][/\ maxStreamID' >= maxStreamID
          /\ \A i \in streams' \ streams :
               i % 2 = 1 /\ i > maxStreamID /\ maxStreamID' = i /\ ~inGoAway]_vars

\* C7 witness: stream 1 exists, a later HEADERS frame with an even id was
\* answered with the connection error, and no stream was created by it
C7_RejectedAfterStream ==
    /\ maxStreamID = 1 /\ streams = {1} /\ req.stream = 0
    /\ fg.type = "HEADERS" /\ fg.id = 2
    /\ inGoAway /\ goAwayCode = ErrCodeProtocol /\ readFrameCh = "open"

\* C8: the number of entries of the streams map equals curOpenStreams.
C8_MapSizeIsOpenCount == Cardinality(streams) = curOpenStreams

\* C8 witness: two streams were created and one of them was closed again
C8_CreatedAndClosed ==
    streams = {3} /\ st[1].state = stateClosed /\ curOpenStreams = 1

\* C9: no stream in the streams map has state closed (a stream whose
\* state becomes closed is removed from the map).
C9_NoClosedStreamInMap == \A i \in streams : st[i].state # stateClosed

\* the listed transitions of the state of stream i in one step. A frame
\* that creates the stream and is answered with a stream error makes two
\* of them in one step: creation, then the reset sent.
C10_Listed(i) ==
    LET a == st[i].state
        b == st'[i].state
        created == maxStreamID < i /\ maxStreamID' = i
        resetNow == (st'[i].sentReset /\ ~st[i].sentReset) \/ (st'[i].gotReset /\ ~st[i].gotReset)
        recvEnd == st'[i].body \in {"EOF", "lengthMismatch"} /\ st[i].body = "open"
        wroteEnd == /\ Len(writers') = Len(writers) + 1
                    /\ writers'[Len(writers')].wm.stream = i
                    /\ endsStream(writers'[Len(writers')].wm)
    IN \/ a = stateIdle /\ b \in {stateOpen, stateHalfClosedRemote} /\ created
       \/ a = stateIdle /\ b = stateClosed /\ created /\ resetNow
       \/ a = stateOpen /\ b = stateHalfClosedRemote /\ recvEnd
       \/ a = stateHalfClosedLocal /\ b = stateClosed /\ recvEnd
       \/ a = stateOpen /\ b = stateHalfClosedLocal /\ wroteEnd
       \/ a = stateHalfClosedRemote /\ b = stateClosed /\ wroteEnd
       \/ a \notin {stateIdle, stateClosed} /\ b = stateClosed /\ resetNow

\* serve returns in this step and closeAllStreamsOnConnClose closes stream
\* i, which was in the map or is created by the frame that ends serve
C10_Teardown(i) ==
    /\ exitCause = "none" /\ exitCause' # "none"
    /\ st[i].state # stateClosed /\ st'[i].state = stateClosed
    /\ i \in streams \/ (maxStreamID < i /\ maxStreamID' = i)

\* C10 as stated: every change of a stream's state is one of the listed
\* transitions, and no stream leaves the closed state.
C10_OnlyListedTransitions ==
    [][\A i \in IDs : st[i].state # st'[i].state => C10_Listed(i)]_vars

\* C10 amended: every change of a stream's state is one of the listed
\* transitions or the close of the stream by closeAllStreamsOnConnClose
\* when serve returns, and no stream leaves the closed state.
C10_ListedOrTeardown ==
    [][\A i \in IDs :
         st[i].state # st'[i].state => (C10_Listed(i) \/ C10_Teardown(i))]_vars

\* C10 witness: serve has returned and closeAllStreamsOnConnClose closed a
\* stream that had not been reset
C10_ClosedByTeardown ==
    /\ pc = "done"
    /\ \E i \in IDs : /\ st[i].state = stateClosed /\ st[i].body = "clientDisconnected"
                        /\ ~st[i].sentReset /\ ~st[i].gotReset

\* C11: a DATA frame that reaches processData for a stream that is not in
\* the streams map, or is not open or half-closed-local, is answered with
\* an RST_STREAM STREAM_CLOSED for its stream id, and the connection keeps
\* serving: the serve loop goes on, GOAWAY is not entered and no other
\* stream changes.
C11_DataOnClosedStreamIsStreamError ==
    [][\A f \in Frames :
         (/\ f.type = "DATA" /\ sawFirstSettings /\ req.stream = 0
          /\ (f.id \notin streams
                \/ st[f.id].state \notin {stateOpen, stateHalfClosedLocal})
          /\ Received(f)) =>
            /\ pc' = "loop"
            /\ inGoAway' = inGoAway
            /\ \A j \in IDs \ {f.id} : st'[j] = st[j]
            /\ \/ \E k \in 1 .. Len(writers') :
                     writers'[k].wm = writeStreamError(f.id, ErrCodeStreamClosed)
               \/ \E k \in 1 .. Len(writeSched') :
                     writeSched'[k] = writeStreamError(f.id, ErrCodeStreamClosed)]_vars

\* C12 as stated: for a stream with a declared content length the count
\* of body bytes accepted never exceeds the declared length.
C12_BodyWithinDeclared ==
    \A i \in IDs : st[i].declBodyBytes # -1 => st[i].bodyBytes <= st[i].declBodyBytes

\* C12 amended: for a stream with a declared content length no byte is
\* accepted beyond the declared length (bodyBytes is at most the declared
\* length, or 0 when the declared length is negative), and a DATA frame
\* that would push bodyBytes above the declared length writes nothing
\* into the pipe and resets the stream with STREAM_CLOSED.
C12_NoByteBeyondDeclared ==
    /\ [](\A i \in IDs :
            st[i].declBodyBytes # -1 =>
               (st[i].bodyBytes <= st[i].declBodyBytes \/ st[i].bodyBytes = 0))
    /\ [][\A f \in DeepFrames :
            (/\ nFrames' # nFrames
             /\ f.type = "DATA" /\ sawFirstSettings /\ req.stream = 0
             /\ f.id \in streams
             /\ st[f.id].state \in {stateOpen, stateHalfClosedLocal}
             /\ st[f.id].body # "nil"
             /\ st[f.id].declBodyBytes # -1
             /\ st[f.id].bodyBytes + f.len > st[f.id].declBodyBytes
             /\ ReceivedDeep(f)) =>
               /\ pc' = "loop"
               /\ st'[f.id].bodyBytes = st[f.id].bodyBytes
               /\ st'[f.id].sentReset /\ st'[f.id].state = stateClosed
               /\ f.id \notin streams'
               /\ \/ \E k \in 1 .. Len(writers') :
                        writers'[k].wm = writeStreamError(f.id, ErrCodeStreamClosed)
                  \/ \E k \in 1 .. Len(writeSched') :
                        writeSched'[k] = writeStreamError(f.id, ErrCodeStreamClosed)]_vars

\* C12 witness: after one DATA frame was accepted, a DATA frame that
\* would exceed the declared length of stream 1 was refused and the stream
\* reset
C12_TooLongRefused ==
    /\ st[1].declBodyBytes = DeclaredLen /\ st[1].body = "streamError"
    /\ st[1].bodyBytes = 1 /\ st[1].sentReset /\ 1 \notin streams
    /\ fg.type = "DATA" /\ fg.id = 1 /\ pc = "loop"

\* C13: a WINDOW_UPDATE that reaches processWindowUpdate and would raise
\* a send window above 2^31-1 leaves the window unchanged; on stream 0 the
\* connection enters GOAWAY with FLOW_CONTROL_ERROR, on a stream in the
\* map that stream, and only it, is reset with FLOW_CONTROL_ERROR and the
\* serve loop goes on. No send window ever exceeds 2^31-1.
C13_WindowOverflowIsFlowError ==
    /\ [](flow <= MaxWindow /\ \A i \in IDs : st[i].flow <= MaxWindow)
    /\ [][\A f \in FlowFrames :
            (/\ nFrames' # nFrames
             /\ f.type = "WINDOW_UPDATE" /\ sawFirstSettings /\ req.stream = 0
             /\ ReceivedFlow(f)) =>
               /\ (f.id = 0 /\ ~flowFits(flow, f.incr)) =>
                     /\ pc' = "loop" /\ flow' = flow /\ st' = st
                     /\ inGoAway' /\ (~inGoAway => goAwayCode' = ErrCodeFlowControl)
               /\ (f.id \in streams /\ ~flowFits(st[f.id].flow, f.incr)) =>
                     /\ pc' = "loop" /\ flow' = flow /\ inGoAway' = inGoAway
                     /\ st'[f.id].flow = st[f.id].flow
                     /\ st'[f.id].sentReset /\ f.id \notin streams'
                     /\ \A j \in IDs \ {f.id} : st'[j] = st[j]
                     /\ \/ \E k \in 1 .. Len(writers') :
                              writers'[k].wm = writeStreamError(f.id, ErrCodeFlowControl)
                        \/ \E k \in 1 .. Len(writeSched') :
                              writeSched'[k] = writeStreamError(f.id, ErrCodeFlowControl)]_vars

C15_NoNewStreamInGoAway ==
    [][inGoAway =>
         /\ streams' \subseteq streams
         /\ maxStreamID' = maxStreamID
         /\ \A i \in IDs : (hpc[i] = "none" /\ hpc'[i] # "none") => i \in streams]_vars

\* C15 witness: in GOAWAY, after the first SETTINGS and outside a header
\* block, a HEADERS frame with the new id 3 was received and ignored
C15_HeadersIgnored ==
    /\ inGoAway /\ sawFirstSettings /\ req.stream = 0 /\ maxStreamID = 0
    /\ fg.type = "HEADERS" /\ fg.id = 3 /\ streams = {}
    /\ pc = "loop" /\ readFrameCh = "open"

\* C20: a frame whose header carries a length above maxReadFrameSize is
\* rejected by Framer.ReadFrame, its payload is not handed to the frame
\* handlers, and serve enters GOAWAY with FRAME_SIZE_ERROR.
C20_OversizedFrameIsFrameSizeError ==
    [][\A w \in WireFrames :
         (/\ nFrames' # nFrames
          /\ ~w.eof /\ wireLength(w) > maxReadFrameSize
          /\ sawFirstSettings /\ req.stream = 0 /\ ~inGoAway
          /\ w.f.id \in streams /\ st[w.f.id].state = stateOpen
          /\ st[w.f.id].body = "open"
          /\ fg' = [type |-> w.f.type, id |-> w.f.id]
          /\ readFrames(w, MaxFrames)) =>
             /\ inGoAway' /\ goAwayCode' = ErrCodeFrameSize
             /\ st'[w.f.id].bodyBytes = st[w.f.id].bodyBytes]_vars

\* the highest stream id processHeaders has made a stream for (0: none)
C17_HighestAccepted(sts) ==
    IF \A i \in IDs : sts[i].state = stateIdle THEN 0
    ELSE CHOOSE i \in IDs : /\ sts[i].state # stateIdle
                            /\ \A j \in IDs : sts[j].state # stateIdle => j <= i

\* C17: at most one GOAWAY write is started on a connection, only in
\* GOAWAY and with nothing left pending; outside a running frame write a
\* GOAWAY is never pending; the write that is started carries goAwayCode
\* and the highest stream id processHeaders accepted; once inGoAway is
\* set, inGoAway, goAwayCode and the shutdown timer do not change.
C17_GoAwayOnce ==
    /\ [](/\ nGoAwayStarted <= 1
          /\ nGoAwayStarted = 1 => (inGoAway /\ ~needToSendGoAway)
          /\ (pc = "loop" /\ needToSendGoAway) => (inGoAway /\ writingFrame))
    /\ [][/\ nGoAwayStarted' # nGoAwayStarted =>
                /\ Len(writers') > 0
                /\ writers'[Len(writers')].wm
                     = writeGoAway(C17_HighestAccepted(st'), goAwayCode')
          /\ inGoAway => /\ inGoAway' /\ goAwayCode' = goAwayCode
                         /\ shutdownTimer' = shutdownTimer]_vars

\* C17 witness: in GOAWAY(FLOW_CONTROL_ERROR) with its frame write started,
\* a PING with a stream id (a connection error of PROTOCOL_ERROR) was
\* received and changed nothing
C17_SecondErrorIgnored ==
    /\ inGoAway /\ goAwayCode = ErrCodeFlowControl /\ nGoAwayStarted = 1
    /\ sawFirstSettings /\ fg.type = "PING" /\ fg.id = 1
    /\ shutdownTimer = "250ms" /\ pc = "loop"

\* C17 as stated: exactly one GOAWAY write is started on a connection
\* that entered GOAWAY, so serve does not return with none started
C17_ExactlyOneGoAway ==
    (inGoAway /\ pc = "done") => nGoAwayStarted = 1

\* C16: in GOAWAY a frame write of an existing stream that waits in the
\* write queue is selected and written: the serve loop is never left
\* with the writer idle, no completion pending, and such a write queued.
C16_QueuedWriteSelectedInGoAway ==
    (/\ inGoAway /\ pc = "loop"
     /\ ~writingFrame /\ wroteFrameCh = 0 /\ writers = <<>>) =>
        \A k \in 1 .. Len(writeSched) :
            \/ writeSched[k].stream = 0
            \/ writeSched[k].stream \notin streams
            \/ st[writeSched[k].stream].state = stateClosed

\* C18: when the shutdown timer of a connection in GOAWAY fires, serve
\* returns: doneServing is closed, and every stream that was in the map is
\* closed, with its body pipe closed with 'client disconnected' and its
\* completion signal fired.
C18_ShutdownClosesAllStreams ==
    [][(/\ inGoAway /\ pc = "loop"
        /\ exitCause = "none" /\ exitCause' = "shutdownTimer") =>
           /\ pc' = "done"
           /\ streams' = {}
           /\ \A i \in streams :
                /\ st'[i].state = stateClosed
                /\ st'[i].cw
                /\ st[i].body # "nil" => st'[i].body = "clientDisconnected"]_vars

\* a frame write of the handler of stream i that reports on its done
\* channel is still on its way: in wantWriteFrameCh, in the write queue or
\* with a writeFrameAsync goroutine that has not reported yet
C19_Pending(i) ==
    \/ \E k \in 1 .. Len(wantWriteFrameCh) :
          wantWriteFrameCh[k].stream = i /\ wantWriteFrameCh[k].done
    \/ \E k \in 1 .. Len(writeSched) : writeSched[k].stream = i /\ writeSched[k].done
    \/ \E k \in 1 .. Len(writers) :
          writers[k].wm.stream = i /\ writers[k].wm.done /\ writers[k].stage = "write"

\* C19: a handler that waits for a frame write while its stream is closed
\* is released: its select has a case that is ready (the completion on
\* its done channel, or the completion signal of the stream), or the write
\* it waits for is still on its way to a completion.
C19_BlockedHandlerReleased ==
    \A i \in IDs :
        (/\ hpc[i] \in {"hdrWait", "hdrWaitEnd", "dataWait", "dataWaitEnd"}
         /\ st[i].state = stateClosed /\ pc = "loop") =>
            \/ hdone[i] > 0
            \/ hpc[i] \in {"dataWait", "dataWaitEnd"} /\ st[i].cw
            \/ C19_Pending(i)

\* the frame f ends a header block that serve accepts in this state: a
\* HEADERS frame that opens a stream, or the CONTINUATION of the block
\* in progress
C21_EndsBlock(f) ==
    /\ f.endHeaders /\ f.frag.ok /\ sawFirstSettings
    /\ \/ /\ f.type = "HEADERS" /\ ~inGoAway /\ req.stream = 0
          /\ f.id % 2 = 1 /\ f.id > maxStreamID
       \/ f.type = "CONTINUATION" /\ req.stream = f.id /\ f.id \in streams

\* the block f ends holds the fields of a well-formed request
C21_WellFormed(f) ==
    \/ f.type = "HEADERS" /\ f.frag = OkFrag
    \/ /\ f.type = "CONTINUATION" /\ f.frag = EmptyFrag
       /\ req = [NoReq EXCEPT !.stream = f.id, !.method = "GET", !.scheme = "https",
                              !.path = "/"]

\* the open-stream count the block of f is checked against
C21_OpenCount(f) == IF f.type = "HEADERS" THEN curOpenStreams + 1 ELSE curOpenStreams

C22_Acks(q, ws, d) ==
    Cardinality({ k \in 1 .. Len(q) : q[k] = writePingAck(d) })
      + Cardinality({ k \in 1 .. Len(ws) : ws[k].wm = writePingAck(d) })

\* a PING ACK with the data d waits in the queue or is being written
C22_Pending(d) ==
    \/ \E k \in 1 .. Len(writeSched) : writeSched[k] = writePingAck(d)
    \/ \E k \in 1 .. Len(writers) :
          writers[k].wm = writePingAck(d) /\ writers[k].stage = "write"

\* a writeFrameAsync goroutine has written a PING ACK with the data d
C22_Written(d) ==
    \E k \in 1 .. Len(writers) :
        writers[k].wm = writePingAck(d) /\ writers[k].stage = "wrote"

\* C22: a PING without ACK on stream 0 that reaches processPing submits
\* exactly one PING ACK with the same opaque data and changes nothing
\* else; a PING with ACK submits no write and changes no state; a
\* submitted PING ACK is written unless serve ends first.
C22_PingAnswered ==
    /\ [][\A f \in PingFrames :
            (/\ nFrames' # nFrames /\ f.type = "PING" /\ f.id = 0
             /\ sawFirstSettings /\ req.stream = 0
             /\ fg' = [type |-> f.type, id |-> f.id] /\ RecvFrame(f, MaxFrames)) =>
                /\ pc' = "loop"
                /\ UNCHANGED <<streams, st, curOpenStreams, maxStreamID, req, inGoAway,
                               goAwayCode, flow, initialWindowSize, hpc, peer>>
                /\ IF f.ack
                   THEN UNCHANGED <<writers, writeSched, writingFrame, wroteFrameCh,
                                    needsFrameFlush>>
                   ELSE /\ \A d \in PingData :
                             C22_Acks(writeSched', writers', d)
                               = C22_Acks(writeSched, writers, d)
                                   + (IF d = f.data THEN 1 ELSE 0)
                        /\ Len(writeSched') + Len(writers')
                             = Len(writeSched) + Len(writers) + 1]_vars
    /\ \A d \in PingData : C22_Pending(d) ~> (C22_Written(d) \/ pc \in {"done", "panic"})

\* C22 witness: the PING ACK that answers a PING with the data 2 has been
\* written while serve runs
C22_AckWritten ==
    /\ C22_Written(2) /\ pc = "loop" /\ fg.type = "PING" /\ ~inGoAway

\* C23: an RST_STREAM for an idle stream (not in the map, id above
\* maxStreamID) is a connection error PROTOCOL_ERROR; for a stream in the
\* map it marks the stream got-reset, closes it and removes it from the
\* map; for a closed stream id it changes nothing.
C23_ResetStream ==
    [][\A f \in ResetFrames :
         (/\ nFrames' # nFrames /\ f.type = "RST_STREAM"
          /\ sawFirstSettings /\ req.stream = 0 /\ ReceivedDeep(f)) =>
            IF f.id \in streams
            THEN /\ pc' = "loop" /\ inGoAway' = inGoAway
                 /\ st'[f.id].gotReset /\ st'[f.id].state = stateClosed
                 /\ f.id \notin streams'
            ELSE IF f.id > maxStreamID
            THEN /\ pc' = "loop" /\ inGoAway'
                 /\ ~inGoAway => goAwayCode' = ErrCodeProtocol
                 /\ UNCHANGED <<streams, st>>
            ELSE /\ pc' = "loop"
                 /\ UNCHANGED <<streams, st, curOpenStreams, inGoAway, writers,
                                writeSched, writingFrame, hpc>>]_vars

\* the four request pseudo-headers
C24_Pseudo == {":method", ":path", ":scheme", ":authority"}

\* the fields, read after a request in the state rp, hold a pseudo-header
\* after a regular header, the same pseudo-header twice, or a
\* ':'-prefixed name that is none of the four
C24_Malformed(rp, fields) ==
    \E k \in 1 .. Len(fields) :
        \/ /\ fields[k].name \in ColonNames
           /\ \/ rp.sawRegularHeader
              \/ \E j \in 1 .. k - 1 : fields[j].name \notin ColonNames
        \/ /\ fields[k].name \in C24_Pseudo
           /\ \E j \in 1 .. k - 1 : fields[j].name = fields[k].name
        \/ fields[k].name \in ColonNames \ C24_Pseudo

\* C24: a header block that ends with a fragment holding a pseudo-header
\* after a regular header, the same pseudo-header twice (whatever the
\* values) or an undefined ':'-prefixed name, or that was marked malformed
\* before, is rejected at END_HEADERS: its stream is reset with
\* PROTOCOL_ERROR and no handler is started.
C24_MalformedBlockRejected ==
    [][\A f \in HdrFrames :
         (/\ nFrames' # nFrames /\ f.type \in {"HEADERS", "CONTINUATION"}
          /\ f.endHeaders /\ sawFirstSettings /\ ~inGoAway
          /\ IF f.type = "HEADERS" THEN req.stream = 0 /\ f.id > maxStreamID
                                   ELSE req.stream = f.id
          /\ req.invalidHeader \/ C24_Malformed(req, f.frag.fields)
          /\ ReceivedDeep(f)) =>
            /\ pc' = "loop" /\ hpc'[f.id] = "none" /\ inGoAway' = inGoAway
            /\ st'[f.id].sentReset /\ f.id \notin streams'
            /\ \/ \E k \in 1 .. Len(writers') :
                     writers'[k].wm = writeStreamError(f.id, ErrCodeProtocol)
               \/ \E k \in 1 .. Len(writeSched') :
                     writeSched'[k] = writeStreamError(f.id, ErrCodeProtocol)]_vars


\* ================================================== the Framer of frame.go
\* a Framer used on its own: frames are written with its write methods
\* or put on the connection by a peer, and read back with ReadFrame

\* frames put on the connection in one run
MaxSent == 2

\* payload lengths of the frames written with WriteData
DataLens == {0, 1, 256, 300}

\* a payload of n bytes
Pattern(n) == [i \in 1 .. n |-> (i * 7) % 256]

\* stream ids of the frames written: a small one and the largest
WriteStreamIDs == {1, 2147483647}

\* the three length bytes of the headers a peer sends
LenBytes == { <<0, 0, 0>>, <<0, 0, 6>>, <<0, 1, 0>>, <<0, 1, 128>>, <<0, 2, 1>>, <<1, 0, 0>> }

\* the four stream id bytes of the headers a peer sends
StreamIDBytes == { <<0, 0, 0, 0>>, <<0, 0, 0, 1>>, <<128, 0, 0, 1>>, <<255, 255, 255, 255>> }

\* the 24-bit big-endian number in the length bytes b
be24(b) == b[1] * 65536 + b[2] * 256 + b[3]

\* SETTINGS payloads: none, one setting (MAX_CONCURRENT_STREAMS or
\* INITIAL_WINDOW_SIZE), five bytes, and 43 settings
SettingsPayloads ==
    { <<>>, <<0, 3, 0, 0, 0, 100>>, <<0, 4, 0, 0, 0, 1>>, <<0, 3, 0, 0, 0>>, Pattern(258) }

\* a frame as bytes: the header with the length of payload, then payload
RawFrame(type, flags, sid, payload) ==
    <<(Len(payload) \div 65536) % 256, (Len(payload) \div 256) % 256, Len(payload) % 256,
      type, flags>> \o sid \o payload

\* what a peer sends: DATA frames under every length and stream id
\* (the payload of the longest is cut short), SETTINGS frames under every
\* flag, stream id and payload, and one frame of each other type
PeerFrames ==
    { <<b[1], b[2], b[3], FrameData, 0>> \o <<0, 0, 0, 1>> \o
        (IF be24(b) > 1000 THEN <<>> ELSE Pattern(be24(b))) : b \in LenBytes }
    \cup { RawFrame(FrameData, 0, sid, <<>>) : sid \in StreamIDBytes }
    \cup { RawFrame(FrameSettings, fl, sid, p) :
             fl \in {0, FlagSettingsAck, 5}, sid \in { <<0, 0, 0, 0>>, <<0, 0, 0, 1>> },
             p \in SettingsPayloads }
    \cup { RawFrame(FrameHeaders, 4, <<0, 0, 0, 1>>, <<130>>),
           RawFrame(FrameContinuation, 4, <<0, 0, 0, 1>>, <<130>>),
           RawFrame(FrameGoAway, 0, <<0, 0, 0, 0>>, <<0, 0, 0, 1, 0, 0, 0, 2, 100>>),
           RawFrame(2, 0, <<0, 0, 0, 1>>, <<0, 0, 0, 0, 15>>),
           RawFrame(FramePing, 0, <<0, 0, 0, 0>>, Pattern(8)),
           RawFrame(FrameWindowUpdate, 0, <<0, 0, 0, 0>>, <<0, 0, 0, 1>>),
           RawFrame(FrameRSTStream, 0, <<0, 0, 0, 1>>, <<0, 0, 0, 8>>) }

framerOnly ==
    UNCHANGED <<pc, streams, st, curOpenStreams, maxStreamID, req, sawFirstSettings,
                needToSendSettingsAck, writingFrame, needsFrameFlush, inGoAway,
                needToSendGoAway, goAwayCode, shutdownTimer, writeSched, peer,
                initialWindowSize, flow, wroteFrameCh, writers, hpc, firstWrite,
                nAckStarted, nGoAwayStarted, wantWriteFrameCh, hdone, hwrites, hread,
                settingsTimer, readFrameCh, nFrames, fg, nSettings, exitCause, tlsOld,
                frameReader>>

\* the peer puts the bytes of a frame on a connection that holds none
PeerSend(bytes) ==
    /\ ~framer.panic
    /\ framer.nSent < MaxSent
    /\ framer.r = <<>>
    /\ framer' = [framer EXCEPT !.r = bytes, !.nSent = @ + 1,
                                !.op = Op("PeerSend", 0, FALSE, Len(bytes), TRUE, FALSE)]
    /\ framerOnly

\* a call of Framer.WriteData
WriteData(streamID, endStream, data, accept) ==
    /\ ~framer.panic
    /\ framer.nSent < MaxSent
    /\ framer.r = <<>>
    /\ framer' = [framerWriteData(framer, streamID, endStream, data, accept)
                    EXCEPT !.nSent = @ + 1,
                           !.op = Op("WriteData", streamID, endStream, Len(data), accept, FALSE)]
    /\ framerOnly

\* a call of Framer.WriteRSTStream
WriteRSTStream(streamID, errCode, accept) ==
    /\ ~framer.panic
    /\ framer.nSent < MaxSent
    /\ framer.r = <<>>
    /\ framer' = [framerWriteRSTStream(framer, streamID, errCode, accept)
                    EXCEPT !.nSent = @ + 1,
                           !.op = Op("WriteRSTStream", streamID, FALSE, 4, accept, FALSE)]
    /\ framerOnly

\* a call of Framer.ReadFrame; the call is recorded with the stream id,
\* the first flag and the Length of the header it read
FramerReadFrame ==
    /\ ~framer.panic
    /\ LET h == ReadFull(framer.r, frameHeaderLen)
           fh == FrameHeader(h.p)
           fr == framerReadFrame(framer)
       IN framer' = [fr EXCEPT !.op = IF h.err # NoErr
                                        THEN Op("ReadFrame", 0, FALSE, 0, FALSE, FALSE)
                                      ELSE Op("ReadFrame", fh.StreamID, Has(fh.Flags, 1),
                                              fh.Length, FALSE, fr.panic)]
    /\ framerOnly

\* a call of ReadFrameHeader on the reader of the connection, at the
\* first byte of a frame just sent
FramerReadFrameHeader ==
    /\ ~framer.panic
    /\ framer.op.name \in {"PeerSend", "WriteData", "WriteRSTStream"}
    /\ framer' = [framerReadFrameHeader(framer)
                    EXCEPT !.op = Op("ReadFrameHeader", 0, FALSE, 0, FALSE, FALSE)]
    /\ framerOnly

\* a call of a payload accessor of the i-th frame ReadFrame returned;
\* s: the setting asked of Value
FramerAccess(i, name, s) ==
    /\ ~framer.panic
    /\ i \in 1 .. Len(framer.frames)
    /\ name \in Accessors(framer.frames[i].kind)
    /\ framer' = [framer EXCEPT
                    !.op = Op(name, i, FALSE, 0, FALSE,
                              accessorPanics(framer.frames[i], name, s))]
    /\ framerOnly

NextFramer ==
    \/ \E bytes \in PeerFrames : PeerSend(bytes)
    \/ \E s \in WriteStreamIDs, e \in BOOLEAN, n \in DataLens : WriteData(s, e, Pattern(n), TRUE)
    \/ WriteData(1, FALSE, Pattern(1), FALSE)
    \/ \E accept \in BOOLEAN : WriteRSTStream(1, 8, accept)
    \/ FramerReadFrame
    \/ FramerReadFrameHeader
    \/ \E i \in 1 .. MaxSent, name \in AccessorNames,
          s \in {SettingMaxConcurrentStreams, SettingInitialWindowSize} : FramerAccess(i, name, s)

SpecFramer == Init /\ [][NextFramer]_vars


\* C25: for every 9-byte frame header, the Length that readFrameHeader
\* returns is the 24-bit big-endian number of the first three bytes
\* (b0*65536 + b1*256 + b2), and the stream id is the low 31 bits of the
\* last four bytes, the reserved top bit ignored
C25_HeaderDecoded ==
    [][(FramerReadFrameHeader /\ Len(framer.r) >= frameHeaderLen) =>
          /\ framer'.fh.Length = framer.r[1] * 65536 + framer.r[2] * 256 + framer.r[3]
          /\ framer'.fh.StreamID = (framer.r[6] % 128) * 16777216 + framer.r[7] * 65536
                                     + framer.r[8] * 256 + framer.r[9]]_vars


\* C26: a DATA frame written by WriteData with stream id s # 0,
\* end-stream flag e and payload p, read back by ReadFrame, is a DataFrame
\* with stream id s, END_STREAM equal to e, Length equal to len(p) and
\* Data() equal to p
C26_DataRoundTrip ==
    [][(framer.op.name = "WriteData" /\ framer.op.accept /\ framer.op.i # 0 /\ FramerReadFrame) =>
          /\ framer'.rerr = NoErr
          /\ framer'.ret # 0
          /\ LET f == framer'.frames[framer'.ret]
             IN /\ f.kind = "DataFrame"
                /\ f.StreamID = framer.op.i
                /\ Has(f.Flags, FlagDataEndStream) = framer.op.e
                /\ f.Length = framer.op.n
                /\ ~accessorPanics(f, "Data", 0)
                /\ f.p = Pattern(framer.op.n)]_vars


\* C27: after a later ReadFrame call every payload accessor of a frame
\* returned earlier panics, and the accessors of the frame the latest
\* ReadFrame call returned never panic
C27_OnlyLatestFrameValid ==
    framer.op.name \in AccessorNames => (framer.op.panic <=> framer.op.i # framer.ret)


\* C28: WriteData and WriteRSTStream each make exactly one Write call on
\* the underlying writer, with the 9-byte header followed by the payload
\* and the length field set to the payload length, and return a nil error
\* whenever the writer accepts all of those bytes without error
C28_OneWriteNilError ==
    framer.op.name \in {"WriteData", "WriteRSTStream"} =>
        /\ Len(framer.writes) = 1
        /\ Len(framer.writes[1]) = frameHeaderLen + framer.op.n
        /\ be24(framer.writes[1]) = framer.op.n
        /\ framer.op.name = "WriteData" =>
              SubSeq(framer.writes[1], frameHeaderLen + 1, Len(framer.writes[1])) = Pattern(framer.op.n)
        /\ framer.op.accept => framer.werr = NoErr


\* the SETTINGS frame a ReadFrame call finds complete at the head of the
\* bytes r
C29_SettingsAtHead(r) ==
    /\ Len(r) >= frameHeaderLen
    /\ r[4] = FrameSettings
    /\ Len(r) >= frameHeaderLen + be24(r)

\* C29: parsing a SETTINGS frame fails with FRAME_SIZE_ERROR whenever the
\* ACK flag is set and the payload is not empty, and with PROTOCOL_ERROR
\* whenever the stream id is not zero, for every combination of flags,
\* stream id and payload length
C29_SettingsErrors ==
    [][(FramerReadFrame /\ C29_SettingsAtHead(framer.r)) =>
          /\ (Has(framer.r[5], FlagSettingsAck) /\ be24(framer.r) > 0) =>
                framer'.rerr = ConnectionError(ErrCodeFrameSize)
          /\ Uint31(SubSeq(framer.r, 6, 9)) # 0 =>
                framer'.rerr = ConnectionError(ErrCodeProtocol)]_vars

\* C29, with the order of the two tests: FRAME_SIZE_ERROR whenever ACK is
\* set and the payload is not empty; PROTOCOL_ERROR whenever the stream id
\* is not zero and the first case does not apply
C29_SettingsErrorsInOrder ==
    [][(FramerReadFrame /\ C29_SettingsAtHead(framer.r)) =>
          /\ (Has(framer.r[5], FlagSettingsAck) /\ be24(framer.r) > 0) =>
                framer'.rerr = ConnectionError(ErrCodeFrameSize) /\ framer'.ret = 0
          /\ (Uint31(SubSeq(framer.r, 6, 9)) # 0
                /\ ~(Has(framer.r[5], FlagSettingsAck) /\ be24(framer.r) > 0)) =>
                framer'.rerr = ConnectionError(ErrCodeProtocol) /\ framer'.ret = 0]_vars

\* the first frame read was a SETTINGS frame with ACK, a payload and a
\* stream id other than zero, refused with FRAME_SIZE_ERROR
C29_BothRefused ==
    /\ framer.op.name = "ReadFrame"
    /\ framer.op.i # 0 /\ framer.op.e /\ framer.op.n > 0
    /\ framer.rerr = ConnectionError(ErrCodeFrameSize)
    /\ framer.nSent = 1
    /\ framer.frames = <<>>


\* the frame write wm was started in this step
C30_Started(wm) ==
    /\ Len(writers') = Len(writers) + 1
    /\ writers'[Len(writers')] = [wm |-> wm, stage |-> "write"]

\* C30: when a frame write completes (the scheduler runs with no write in
\* flight) the frame started is the pending GOAWAY; else the pending
\* SETTINGS-ACK; else, unless the connection is in GOAWAY, the head of the
\* FIFO; else a flush if the last frame started was not a flush; else
\* nothing. When the GOAWAY or the SETTINGS-ACK is started the FIFO is left
\* as it was, so they go before every request queued at that moment; and
\* neither of them is ever pending without a write in flight.
C30_SchedulerOrder ==
    /\ [](pc = "loop" => ((needToSendGoAway \/ needToSendSettingsAck) => writingFrame))
    /\ [][(pc = "loop" /\ wroteFrameCh > 0 /\ WroteFrame) =>
            IF needToSendGoAway
                THEN /\ C30_Started(writeGoAway(maxStreamID, goAwayCode))
                     /\ ~needToSendGoAway'
                     /\ UNCHANGED <<writeSched, needToSendSettingsAck>>
            ELSE IF needToSendSettingsAck
                THEN /\ C30_Started(writeSettingsAck)
                     /\ ~needToSendSettingsAck'
                     /\ UNCHANGED writeSched
            ELSE IF ~inGoAway /\ writeSched # <<>>
                THEN /\ writeSched' = Tail(writeSched)
                     /\ \/ C30_Started(Head(writeSched))
                        \/ pc' # "loop"
                        \/ st[Head(writeSched).stream].state = stateClosed
            ELSE IF needsFrameFlush
                THEN /\ C30_Started(flushFrameWriter)
                     /\ ~needsFrameFlush'
                     /\ UNCHANGED writeSched
            ELSE /\ UNCHANGED <<writers, writeSched>>
                 /\ ~writingFrame']_vars

\* C30 witness: the GOAWAY write was started while a SETTINGS-ACK was
\* pending and a request waited in the FIFO
C30_GoAwayFirst ==
    /\ pc = "loop"
    /\ nGoAwayStarted = 1 /\ nAckStarted = 0 /\ needToSendSettingsAck
    /\ writers = <<[wm |-> writeGoAway(maxStreamID, goAwayCode), stage |-> "write"]>>
    /\ writeSched # <<>>


\* q1 is q with some requests taken from its front and some added at
\* its end
C31_FifoStep(q, q1) ==
    \E k \in 0 .. Len(q) :
        /\ Len(q1) >= Len(q) - k
        /\ SubSeq(q1, 1, Len(q) - k) = SubSeq(q, k + 1, Len(q))

\* the requests of stream i that wait, in the order in which the serve
\* loop accepted or will accept them
C31_Waiting(i) ==
    SelectSeq(writeSched \o wantWriteFrameCh, LAMBDA wm : wm.stream = i)

\* C31: the requests accepted through writeFrame are started in the order
\* they were accepted. The queue only loses requests at its front and gains
\* them at its end; a request (anything but the GOAWAY, the SETTINGS-ACK and
\* the flush) is started either from the head of the queue or, on the fast
\* path, while the queue is empty; and for one stream no HEADERS write waits
\* behind a DATA write, waiting or in flight, and nothing waits behind a
\* write that carries END_STREAM.
C31_StartedInOrder ==
    /\ [][/\ C31_FifoStep(writeSched, writeSched')
          /\ (/\ Len(writers') = Len(writers) + 1
              /\ writers'[Len(writers')].wm.kind \notin {"GOAWAY", "SETTINGS_ACK", "FLUSH"}) =>
                \/ writeSched = <<>>
                \/ /\ writers'[Len(writers')].wm = Head(writeSched)
                   /\ writeSched' = Tail(writeSched)]_vars
    /\ [](\A i \in IDs :
            LET w == C31_Waiting(i)
            IN /\ \A j, k \in 1 .. Len(w) :
                     j < k => (~endsStream(w[j]) /\ ~(w[j].kind = "DATA" /\ w[k].kind = "HEADERS"))
               /\ \A n \in 1 .. Len(writers) :
                     (writers[n].wm.stream = i /\ writers[n].stage = "write") =>
                        /\ writers[n].wm.kind = "DATA" =>
                              \A k \in 1 .. Len(w) : w[k].kind # "HEADERS"
                        /\ endsStream(writers[n].wm) => w = <<>>)

\* C31 witness: the DATA write of stream 1 that carries END_STREAM is in
\* flight, the second write of its handler, after the SETTINGS-ACK
C31_DataAfterHeaders ==
    /\ pc = "loop"
    /\ \E n \in 1 .. Len(writers) : writers[n].wm = writeData(1, TRUE) /\ writers[n].stage = "write"
    /\ hwrites[1] = 2
    /\ nAckStarted = 1


\* the request the serve loop selects in this step: the head of the
\* queue when a completion is taken from wroteFrameCh, or the request
\* taken from wantWriteFrameCh on the fast path of writeFrame
C32_Selects(wm) ==
    \/ /\ pc = "loop" /\ wroteFrameCh > 0 /\ WroteFrame
       /\ ~needToSendGoAway /\ ~needToSendSettingsAck /\ ~inGoAway
       /\ writeSched # <<>> /\ wm = Head(writeSched)
    \/ /\ pc = "loop" /\ wantWriteFrameCh # <<>> /\ WantWrite
       /\ ~writingFrame /\ writeSched = <<>> /\ wm = Head(wantWriteFrameCh)

\* the owning stream of wm is half-closed-local, or closed and reset
C32_Droppable(wm) ==
    /\ wm.stream # 0
    /\ \/ st[wm.stream].state = stateHalfClosedLocal
       \/ /\ st[wm.stream].state = stateClosed
          /\ st[wm.stream].sentReset \/ st[wm.stream].gotReset

\* C32: a selected request whose owning stream is half-closed-local, or
\* closed and reset, is dropped: no frame write is started for it, the
\* serve loop goes on, and its completion channel, when it has one, is
\* signalled
C32_DroppedAndSignalled ==
    [][\A i \in IDs, end \in BOOLEAN, withH \in BOOLEAN :
         \A wm \in {writeResHeaders(i, end, withH), writeData(i, end), writeWindowUpdate(i)} :
            (C32_Droppable(wm) /\ C32_Selects(wm)) =>
                /\ pc' = "loop"
                /\ writers' = writers
                /\ wm.done => hdone'[i] = hdone[i] + 1]_vars


\* C33: the serve goroutine never blocks outside its select: the fake
\* completion that startFrameWrite sends on wroteFrameCh for a skipped
\* request always finds the buffer of the channel empty
C33_FakeSendNeverBlocks == pc # "blocked"


\* the step starts a writeFrameAsync goroutine for a flush / for a frame
C34_StartsFlush ==
    Len(writers') = Len(writers) + 1 /\ writers'[Len(writers')].wm = flushFrameWriter
C34_StartsFrame ==
    Len(writers') = Len(writers) + 1 /\ writers'[Len(writers')].wm # flushFrameWriter

\* a frame that is being written and is not a flush step
C34_FrameInFlight ==
    \E i \in 1 .. Len(writers) :
        writers[i].stage = "write" /\ writers[i].wm # flushFrameWriter

\* C34: when a write completes and nothing else can be selected (no
\* GOAWAY, no SETTINGS ACK, no queued request that may be taken) and a
\* flush is owed, the scheduler starts a flush step; while a frame is
\* being written a flush is owed and no other write runs, so the frame
\* is followed by a flush; a flush step is started only when a flush is
\* owed, which only the start of a frame write brings about, so no two
\* flush steps are started without a frame write between them
C34_FlushAfterWrite ==
    /\ [](C34_FrameInFlight => (needsFrameFlush /\ writingFrame /\ Len(writers) = 1))
    /\ [][/\ (/\ pc = "loop" /\ wroteFrameCh > 0 /\ WroteFrame
              /\ ~needToSendGoAway /\ ~needToSendSettingsAck
              /\ (inGoAway \/ writeSched = <<>>)
              /\ needsFrameFlush) => C34_StartsFlush
          /\ C34_StartsFlush => (needsFrameFlush /\ ~needsFrameFlush')
          /\ (~needsFrameFlush /\ needsFrameFlush') => C34_StartsFrame]_vars


\* ------------------------------------------------ reader and event loop
\* a peer that opens one request, ends its body and resets streams, with
\* the readFrames goroutine, its channel and its gate as steps of their own
gateCap == 1

readerOnly ==
    UNCHANGED <<pc, streams, st, curOpenStreams, maxStreamID, req, sawFirstSettings,
                needToSendSettingsAck, writingFrame, needsFrameFlush, inGoAway,
                needToSendGoAway, goAwayCode, shutdownTimer, writeSched, peer,
                initialWindowSize, flow, wroteFrameCh, writers, hpc, firstWrite,
                nAckStarted, nGoAwayStarted, wantWriteFrameCh, hdone, hwrites, hread,
                settingsTimer, readFrameCh, nFrames, fg, nSettings, exitCause, tlsOld,
                framer>>

\* readFrames: Framer.ReadFrame returns the next frame of the peer
ReaderReadFrame(f) ==
    /\ readFrameCh = "open"
    /\ pc \in {"loop", "proc"}
    /\ frameReader.pc = "read"
    /\ frameReader.sent < MaxFrames
    /\ frameReader' = readFramesGot(frameReader, f)
    /\ readerOnly

\* readFrames: Framer.ReadFrame returns an error (the peer is gone, or
\* serve returned and closed the connection)
ReaderReadError(err) ==
    /\ readFrameCh = "open"
    /\ frameReader.pc = "read"
    /\ frameReader' = readFramesErr(frameReader, err)
    /\ readerOnly

\* readFrames: g.Wait()
ReaderWait ==
    /\ frameReader.pc = "wait"
    /\ frameReader.g > 0
    /\ frameReader' = gateWait(frameReader)
    /\ readerOnly

\* case fg, ok := <-sc.readFrameCh: the reader's send is received
ServeRecvFrame ==
    /\ pc = "loop"
    /\ readFrameCh = "open"
    /\ frameReader.pc = "send"
    /\ pc' = "proc"
    /\ frameReader' = readFramesSent(frameReader)
    /\ UNCHANGED <<streams, st, curOpenStreams, maxStreamID, req, sawFirstSettings,
                   needToSendSettingsAck, writingFrame, needsFrameFlush, inGoAway,
                   needToSendGoAway, goAwayCode, shutdownTimer, writeSched, peer,
                   initialWindowSize, flow, wroteFrameCh, writers, hpc, firstWrite,
                   nAckStarted, nGoAwayStarted, wantWriteFrameCh, hdone, hwrites, hread,
                   settingsTimer, readFrameCh, nFrames, fg, nSettings, exitCause, tlsOld,
                   framer>>

\* processFrameFromReader for the frame received, and the end of the case:
\* g.Done() follows processFrame unless processFrame panicked
ServeProcessFrame ==
    /\ pc = "proc"
    /\ LET s == [SC EXCEPT !.pc = "loop"]
           f == frameReader.f
       IN /\ \E ord \in Orders :
                /\ AfterRead(processFrameFromReader(s, f, ord), ord)
                /\ nSettings' = IF settingsAccepted(s, f, ord) THEN nSettings + 1 ELSE nSettings
                /\ frameReader' = IF Halted(processFrame(s, f, ord).s) \/ frameReader.g >= gateCap
                                  THEN frameReader ELSE gateDone(frameReader)
          /\ fg' = [type |-> f.type, id |-> f.id]
    /\ UNCHANGED <<wantWriteFrameCh, hdone, hwrites, hread, readFrameCh, tlsOld, framer>>

\* case fg, ok := <-sc.readFrameCh after readFrames closed the channel
ServeRecvClosed ==
    /\ frameReader.pc = "exit"
    /\ RecvReadError(frameReader.err, MaxFrames + 1)

NextGate ==
    \/ Local
    \/ \E f \in ResetFrames : ReaderReadFrame(f)
    \/ \E err \in DeepReadErrors : ReaderReadError(err)
    \/ ReaderWait
    \/ ServeRecvFrame
    \/ ServeProcessFrame
    \/ ServeRecvClosed

SpecGate == Init /\ [][NextGate]_vars

\* C35: while the event loop holds a frame (from the receive on
\* readFrameCh to the return of processFrameFromReader) the reader is in
\* g.Wait with an empty gate, so it is not in Framer.ReadFrame and the
\* frame is valid; the gate is signalled once per frame handed over
C35_ReaderOneAhead ==
    /\ (pc = "proc") =>
          /\ frameReader.pc = "wait" /\ frameReader.g = 0 /\ frameReader.valid
          /\ frameReader.signalled = frameReader.sent - 1
    /\ (pc \in {"loop", "done"}) => frameReader.signalled = frameReader.sent
    /\ frameReader.g <= gateCap

C35_SecondFrameHeld ==
    pc = "proc" /\ frameReader.sent = 2 /\ frameReader.signalled = 1 /\ frameReader.f.type = "HEADERS"

\* C39: once serve has returned the reader is not left blocked: it has
\* returned, or it is in ReadFrame on the closed connection, or it is in
\* g.Wait with a signal in the gate
C39_ReaderNotLeftBlocked ==
    (pc = "done" /\ readFrameCh # "off") =>
        \/ frameReader.pc \in {"exit", "read"}
        \/ frameReader.pc = "wait" /\ frameReader.g > 0


\* C36: a WINDOW_UPDATE frame with a non-zero stream id that is not in
\* the streams map (received after the first SETTINGS, outside a header
\* block) gives no error and changes neither the connection window, nor a
\* stream, nor the write queue and the writes in progress, nor the GOAWAY
\* flags
C36_UnknownStreamUpdateIgnored ==
    [][\A f \in FlowFrames :
         (/\ f.type = "WINDOW_UPDATE" /\ f.id # 0 /\ f.id \notin streams
          /\ sawFirstSettings /\ req.stream = 0 /\ ReceivedFlow(f)) =>
            /\ pc' = "loop"
            /\ UNCHANGED <<flow, st, streams, curOpenStreams, maxStreamID, writeSched,
                           writers, writingFrame, needsFrameFlush, wroteFrameCh,
                           inGoAway, needToSendGoAway, goAwayCode, shutdownTimer,
                           needToSendSettingsAck, initialWindowSize, peer, hpc>>]_vars

C36_UpdateForClosedStream ==
    /\ pc = "loop" /\ fg = [type |-> "WINDOW_UPDATE", id |-> 1]
    /\ 1 \notin streams /\ maxStreamID = 1 /\ st[1].state = stateClosed
    /\ ~st[1].sentReset /\ ~st[1].gotReset
    /\ ~inGoAway /\ nFrames = MaxFramesFlow


\* C37: each stream error that reaches the serve goroutine, returned by
\* processFrame or left by readFrames on readFrameErrCh, names a stream
\* that is in the streams map, so resetStream does not abort
C37_StreamErrorNamesStream ==
    [][/\ \A f \in Frames :
            (nFrames' # nFrames /\ Received(f)) =>
               \A ord \in Orders :
                  LET r == processFrame(SC, f, ord)
                  IN (~Halted(r.s) /\ r.err.t = "stream") => r.err.id \in r.s.streams
       /\ \A err \in ReadErrors :
            (nFrames' # nFrames /\ err.t = "stream" /\ RecvReadError(err, MaxFrames)) =>
               err.id \in streams]_vars


\* a stream closeStream accepts
C38_Closeable(i) == st[i].state \notin {stateIdle, stateClosed}

\* C38: closeStream is only called for streams that are neither idle nor
\* closed: the stream of the map that an RST_STREAM frame names, and the
\* streams of the map that closeAllStreamsOnConnClose visits when serve
\* returns on a timer
C38_CloseStreamOnLiveStream ==
    [][/\ \A f \in ResetFrames :
            (/\ nFrames' # nFrames /\ f.type = "RST_STREAM" /\ f.id \in streams
             /\ sawFirstSettings /\ req.stream = 0 /\ ReceivedDeep(f)) => C38_Closeable(f.id)
       /\ (pc = "loop" /\ (SettingsTimeout \/ ShutdownTimeout)) =>
              \A i \in streams : C38_Closeable(i)]_vars


\* startFrameWrite panics for the request wm
C40_Aborts(wm) ==
    \/ wm.stream # 0 /\ st[wm.stream].state = stateHalfClosedLocal
    \/ /\ wm.stream # 0 /\ st[wm.stream].state = stateClosed
       /\ ~st[wm.stream].sentReset /\ ~st[wm.stream].gotReset
    \/ endsStream(wm) /\ wm.stream = 0

\* C40: no request of a handler that startFrameWrite is called with, on
\* the fast path of writeFrame or from the queue, makes it panic: its
\* stream is not half-closed-local, is not closed without a reset, and a
\* request that ends the stream has a stream; the queue never holds a
\* request of a stream behind the request that ends that stream
C40_StartFrameWriteNeverAborts ==
    /\ [][/\ (/\ pc = "loop" /\ wroteFrameCh > 0
               /\ ~needToSendGoAway /\ ~needToSendSettingsAck /\ ~inGoAway
               /\ writeSched # <<>> /\ Head(writeSched).stream # 0
               /\ WroteFrame) =>
                  (~C40_Aborts(Head(writeSched)) /\ pc' # "panic")
          /\ (/\ pc = "loop" /\ wantWriteFrameCh # <<>>
               /\ ~writingFrame /\ writeSched = <<>>
               /\ WantWrite) =>
                  (~C40_Aborts(Head(wantWriteFrameCh)) /\ pc' # "panic")]_vars
    /\ [](\A k \in 1 .. Len(writeSched) :
             endsStream(writeSched[k]) =>
                \A j \in k + 1 .. Len(writeSched) : writeSched[j].stream # writeSched[k].stream)

C40_EndStreamStarted ==
    /\ pc = "loop" /\ st[1].state = stateClosed /\ ~st[1].sentReset /\ ~st[1].gotReset
    /\ 1 \notin streams /\ hwrites[1] = 2 /\ hpc[1] = "dataWaitEnd"
    /\ \E k \in 1 .. Len(writers) : writers[k].wm = writeData(1, TRUE)

====
